---- MODULE Spec2Model ----
(***************************************************************************)
(* Model of the supplier reconciliation core: the SQLite store kept by     *)
(* DatabaseManager (src/scraper/database.py) and the import / aggregate /  *)
(* export tail of ProtheusScraper.run (src/scraper/protheus.py).           *)
(*                                                                         *)
(* Text values are sequences of one-character strings so that TRIM, UPPER, *)
(* REPLACE and LIKE can be computed.  Money is held in cents; a REAL       *)
(* column holds the binary64 number nearest to cents/100, and comparisons  *)
(* on REAL values are computed in binary64 (FromCents, FAdd, FMul).  SUM   *)
(* is taken as the correctly rounded sum of its terms, which is exact for  *)
(* a group with a single row.                                              *)
(***************************************************************************)
EXTENDS Integers, Sequences, FiniteSets, TLC

----------------------------------------------------------------------------
(* Generic helpers *)

Abs(x) == IF x < 0 THEN 0 - x ELSE x
MinOf(a, b) == IF a < b THEN a ELSE b

RECURSIVE SumSeq(_)
SumSeq(s) == IF s = <<>> THEN 0 ELSE Head(s) + SumSeq(Tail(s))

RECURSIVE Distinct(_)
(* first occurrence of every element, in order *)
Distinct(s) ==
    IF s = <<>> THEN <<>>
    ELSE LET init == Distinct(SubSeq(s, 1, Len(s) - 1))
             x == s[Len(s)]
         IN IF \E i \in 1..Len(init) : init[i] = x THEN init ELSE Append(init, x)

----------------------------------------------------------------------------
(* SQL text functions *)

NULL == <<"NULL">>
Empty == <<>>

Coalesce(a, b) == IF a # NULL THEN a ELSE b
NullIf(a, b) == IF a # NULL /\ b # NULL /\ a = b THEN NULL ELSE a

RECURSIVE LTrim(_)
LTrim(s) == IF s # <<>> /\ Head(s) = " " THEN LTrim(Tail(s)) ELSE s
RECURSIVE RTrim(_)
RTrim(s) == IF s # <<>> /\ s[Len(s)] = " " THEN RTrim(SubSeq(s, 1, Len(s) - 1)) ELSE s
Trim(s) == IF s = NULL THEN NULL ELSE LTrim(RTrim(s))

UpperChar(c) ==
    CASE c = "a" -> "A" [] c = "b" -> "B" [] c = "c" -> "C" [] c = "d" -> "D"
      [] c = "e" -> "E" [] c = "f" -> "F" [] c = "g" -> "G" [] c = "h" -> "H"
      [] c = "i" -> "I" [] c = "j" -> "J" [] c = "k" -> "K" [] c = "l" -> "L"
      [] c = "m" -> "M" [] c = "n" -> "N" [] c = "o" -> "O" [] c = "p" -> "P"
      [] c = "q" -> "Q" [] c = "r" -> "R" [] c = "s" -> "S" [] c = "t" -> "T"
      [] c = "u" -> "U" [] c = "v" -> "V" [] c = "w" -> "W" [] c = "x" -> "X"
      [] c = "y" -> "Y" [] c = "z" -> "Z" [] OTHER -> c
Upper(s) == IF s = NULL THEN NULL ELSE [i \in 1..Len(s) |-> UpperChar(s[i])]

IsPrefix(p, s) == Len(p) <= Len(s) /\ SubSeq(s, 1, Len(p)) = p

RECURSIVE RemoveAll(_, _)
(* REPLACE(s, pat, ''), pat non-empty, scanning left to right *)
RemoveAll(s, pat) ==
    IF s = <<>> THEN <<>>
    ELSE IF IsPrefix(pat, s) THEN RemoveAll(SubSeq(s, Len(pat) + 1, Len(s)), pat)
    ELSE <<Head(s)>> \o RemoveAll(Tail(s), pat)
Replace(s, pat) == IF s = NULL THEN NULL ELSE RemoveAll(s, pat)

(* s LIKE 'p%' for a pattern without wildcards inside p *)
LikePrefix(s, p) == s # NULL /\ IsPrefix(Upper(p), Upper(s))

(* a = b in a WHERE clause: NULL on either side is not true *)
SqlEq(a, b) == a # NULL /\ b # NULL /\ a = b

----------------------------------------------------------------------------
(* binary64 arithmetic on REAL values.  A magnitude is a little-endian     *)
(* sequence of limbs in base 2^15; a number is [s, m, e] = (-1)^s*m*2^e.   *)

Precision == 53
LimbBits == 15
Base == 32768
Scale == 60

RECURSIVE Pow2(_)
Pow2(k) == IF k = 0 THEN 1 ELSE 2 * Pow2(k - 1)

RECURSIVE NatLimbs(_)
NatLimbs(n) == IF n = 0 THEN <<>> ELSE <<n % Base>> \o NatLimbs(n \div Base)

RECURSIVE Strip(_)
Strip(b) == IF b = <<>> THEN <<>>
            ELSE IF b[Len(b)] = 0 THEN Strip(SubSeq(b, 1, Len(b) - 1)) ELSE b

RECURSIVE LAddC(_, _, _)
LAddC(a, b, c) ==
    IF a = <<>> /\ b = <<>> THEN (IF c = 0 THEN <<>> ELSE <<c>>)
    ELSE LET x == IF a = <<>> THEN 0 ELSE Head(a)
             y == IF b = <<>> THEN 0 ELSE Head(b)
             s == x + y + c
         IN <<s % Base>> \o LAddC(IF a = <<>> THEN <<>> ELSE Tail(a),
                                  IF b = <<>> THEN <<>> ELSE Tail(b), s \div Base)
LAdd(a, b) == LAddC(a, b, 0)

RECURSIVE LSubC(_, _, _)
LSubC(a, b, c) ==
    IF a = <<>> THEN <<>>
    ELSE LET y == IF b = <<>> THEN 0 ELSE Head(b)
             s == Head(a) - y - c
         IN <<s % Base>> \o LSubC(Tail(a), IF b = <<>> THEN <<>> ELSE Tail(b),
                                  IF s < 0 THEN 1 ELSE 0)
LSub(a, b) == Strip(LSubC(a, b, 0))

RECURSIVE LLeS(_, _)
LLeS(a, b) ==
    IF Len(a) # Len(b) THEN Len(a) < Len(b)
    ELSE IF a = <<>> THEN TRUE
    ELSE IF a[Len(a)] # b[Len(b)] THEN a[Len(a)] < b[Len(b)]
    ELSE LLeS(SubSeq(a, 1, Len(a) - 1), SubSeq(b, 1, Len(b) - 1))
LLe(a, b) == LLeS(Strip(a), Strip(b))

RECURSIVE LMulSmallC(_, _, _)
LMulSmallC(a, s, c) ==
    IF a = <<>> THEN (IF c = 0 THEN <<>> ELSE <<c>>)
    ELSE LET p == Head(a) * s + c
         IN <<p % Base>> \o LMulSmallC(Tail(a), s, p \div Base)
LMulSmall(a, s) == LMulSmallC(a, s, 0)

RECURSIVE LMul(_, _)
LMul(a, b) == IF b = <<>> THEN <<>>
              ELSE LAdd(LMulSmall(a, Head(b)), <<0>> \o LMul(a, Tail(b)))

RECURSIVE LDivSmall(_, _)
LDivSmall(a, d) ==
    IF a = <<>> THEN <<<<>>, 0>>
    ELSE LET hi == LDivSmall(Tail(a), d)
             r == hi[2] * Base + Head(a)
         IN << <<r \div d>> \o hi[1], r % d >>

ShiftL(a, k) == [i \in 1..(k \div LimbBits) |-> 0] \o LMulSmall(a, Pow2(k % LimbBits))
ShiftR(a, k) == LET q == k \div LimbBits
                IN IF q >= Len(a) THEN <<>>
                   ELSE Strip(LDivSmall(SubSeq(a, q + 1, Len(a)), Pow2(k % LimbBits))[1])
LBit(a, i) == LET j == (i \div LimbBits) + 1
              IN IF j > Len(a) THEN 0 ELSE (a[j] \div Pow2(i % LimbBits)) % 2
RECURSIVE IntBitLen(_)
IntBitLen(n) == IF n = 0 THEN 0 ELSE 1 + IntBitLen(n \div 2)
BitLen(a) == LET m == Strip(a)
             IN IF m = <<>> THEN 0 ELSE LimbBits * (Len(m) - 1) + IntBitLen(m[Len(m)])

(* round m*2^e (plus a non-zero tail when sticky) to 53 bits, ties to even *)
RoundP(q, sticky, e) ==
    LET m == Strip(q)
        L == BitLen(m)
    IN IF L <= Precision THEN [m |-> m, e |-> e]
       ELSE LET k == L - Precision
                high == ShiftR(m, k)
                rest == sticky \/ \E i \in 0..(k - 2) : LBit(m, i) = 1
                up == LBit(m, k - 1) = 1 /\ (rest \/ LBit(high, 0) = 1)
            IN [m |-> IF up THEN LAdd(high, <<1>>) ELSE high, e |-> e + k]

(* the REAL value stored for an amount of n cents: nearest binary64 to n/100 *)
FromCents(n) ==
    LET d == LDivSmall(ShiftL(NatLimbs(Abs(n)), Scale), 100)
        r == RoundP(d[1], d[2] # 0, 0 - Scale)
    IN [s |-> IF n < 0 THEN 1 ELSE 0, m |-> r.m, e |-> r.e]

MagLe(x, y) == LET e0 == MinOf(x.e, y.e)
               IN LLe(ShiftL(x.m, x.e - e0), ShiftL(y.m, y.e - e0))

FAdd(x, y) ==
    LET e0 == MinOf(x.e, y.e)
        a == Strip(ShiftL(x.m, x.e - e0))
        b == Strip(ShiftL(y.m, y.e - e0))
    IN IF x.s = y.s
       THEN LET r == RoundP(LAdd(a, b), FALSE, e0) IN [s |-> x.s, m |-> r.m, e |-> r.e]
       ELSE IF LLe(b, a)
            THEN LET r == RoundP(LSub(a, b), FALSE, e0) IN [s |-> x.s, m |-> r.m, e |-> r.e]
            ELSE LET r == RoundP(LSub(b, a), FALSE, e0) IN [s |-> y.s, m |-> r.m, e |-> r.e]
FNeg(x) == [x EXCEPT !.s = 1 - x.s]
FAbs(x) == [x EXCEPT !.s = 0]
FMul(x, y) == LET r == RoundP(LMul(x.m, y.m), FALSE, x.e + y.e)
              IN [s |-> (x.s + y.s) % 2, m |-> r.m, e |-> r.e]

(* the literal 0.03 of query_diferenca *)
TolFraction == FromCents(3)

(* ABS(d) <= 0.03 * CASE WHEN ABS(a) > ABS(f) THEN ABS(a) ELSE ABS(f) END *)
WithinTolerance(d, f, a) ==
    LET big == IF MagLe(FAbs(a), FAbs(f)) THEN FAbs(f) ELSE FAbs(a)
    IN MagLe(FAbs(d), FMul(TolFraction, big))

----------------------------------------------------------------------------
(* Text constants of the queries and of the sample files *)

PayablePrefix == <<"2", ".", "0", "1", ".", "0", "2", ".", "0", "1", ".", "0", "0", "0", "1">>
AdvancePrefix == <<"1", ".", "0", "1", ".", "0", "6", ".", "0", "2", ".", "0", "0", "0", "1">>
ContaPayable == <<"2", ".", "0", "1", ".", "0", "2", ".", "0", "1", ".", "0", "0", "0", "1", "9", "9">>
ContaAdvance == <<"1", ".", "0", "1", ".", "0", "6", ".", "0", "2", ".", "0", "0", "0", "1", "0", "1">>
ContaOther == <<"3", ".", "0", "1", ".", "0", "1">>

TipoNF == <<"N", "F">>
TipoFT == <<"F", "T">>
TipoNDF == <<"N", "D", "F">>
TipoPA == <<"P", "A">>
PrefixAF == <<"A", "F">>
PrefixF == <<"F">>
TextNan == <<"n", "a", "n">>

Digits == {"0", "1", "2", "3", "4", "5", "6", "7", "8", "9"}
Separators == {" ", "-", ".", "/"}
IsDigit(c) == c \in Digits

----------------------------------------------------------------------------
(* separar_codigo_descricao: split "1001 ACME" into code and description *)

RECURSIVE RunLength(_, _)
(* length of the longest prefix of s made of characters of class *)
RunLength(s, class) ==
    IF s # <<>> /\ Head(s) \in class THEN 1 + RunLength(Tail(s), class) ELSE 0

Drop(s, n) == SubSeq(s, n + 1, Len(s))
OnlyDigits(s) == SelectSeq(s, IsDigit)

SepararCodigoDescricao(valor) ==
    LET v == Trim(valor)
    IN IF v = NULL \/ v = <<>> THEN [codigo |-> Empty, descricao |-> Empty]
       ELSE LET d1 == RunLength(v, Digits)
                sp == RunLength(Drop(v, d1), Separators)
                d2 == RunLength(Drop(v, d1 + sp), Digits)
                grupo == RTrim(SubSeq(v, 1, d1 + sp + d2))
                resto == Trim(Drop(v, Len(grupo)))
            IN IF d1 = 0 THEN [codigo |-> Empty, descricao |-> v]
               ELSE [codigo |-> OnlyDigits(grupo),
                     descricao |-> Drop(resto, RunLength(resto, Separators))]

----------------------------------------------------------------------------
(* Cleaning of an imported sheet (_clean_dataframe and the per-kind cleaners) *)

TextNone == <<"N", "o", "n", "e">>
TextOutros == <<"O", "U", "T", "R", "O", "S">>

Contains(s, pat) == \E i \in 1..(Len(s) - Len(pat) + 1) : SubSeq(s, i, i + Len(pat) - 1) = pat

(* str(x).strip(), then 'nan', 'None' and '' become missing *)
CleanCell(x) ==
    IF x = NULL THEN NULL
    ELSE LET t == Trim(x) IN IF t \in {Empty, TextNan, TextNone} THEN NULL ELSE t

(* astype(str).str.strip() followed by the removal of a leading AF or F *)
CleanCodigo(x) ==
    LET t == IF x = NULL THEN TextNan ELSE Trim(x)
    IN IF IsPrefix(PrefixAF, t) THEN Drop(t, 2)
       ELSE IF IsPrefix(PrefixF, t) THEN Drop(t, 1) ELSE t

CleanFinanceiroData(rows) ==
    Distinct([i \in 1..Len(rows) |->
        LET r == rows[i]
            f == CleanCell(r.fornecedor)
            cd == SepararCodigoDescricao(f)
        IN [fornecedor |-> f, codigo |-> cd.codigo, descricao |-> cd.descricao,
            tipo |-> CleanCell(r.tipo), valor |-> r.valor,
            vencidos |-> r.vencidos, avencer |-> r.avencer]])

(* shared by _clean_contas_itens_data and _clean_adiantamento_data *)
CleanItensData(rows) ==
    LET semCodigo == \A i \in 1..Len(rows) : CleanCell(rows[i].codigo) = NULL
    IN Distinct([i \in 1..Len(rows) |->
        LET r == rows[i]
            item == CleanCell(r.item)
            cd == SepararCodigoDescricao(item)
        IN [conta |-> CleanCell(r.conta), item |-> item,
            codigo |-> CleanCodigo(IF semCodigo THEN cd.codigo ELSE CleanCell(r.codigo)),
            descricao |-> IF semCodigo THEN cd.descricao ELSE CleanCell(r.descricao),
            saldo |-> r.saldo]])

CleanModelo1Data(rows) ==
    LET cleaned == [i \in 1..Len(rows) |->
                      [conta |-> CleanCell(rows[i].conta),
                       descricao |-> CleanCell(rows[i].descricao),
                       saldo |-> rows[i].saldo]]
    IN Distinct(SelectSeq(cleaned,
                LAMBDA r : ~(r.descricao # NULL /\ Contains(r.descricao, TextOutros))))

(* columns of df that the destination table does not have are dropped,     *)
(* table columns that df does not have are filled (excluido with 0)        *)
FinanceiroColumns == {"codigo_fornecedor", "descricao_fornecedor"}
KeepFinanceiro(rows, cols) ==
    [i \in 1..Len(rows) |->
        [fornecedor |-> rows[i].fornecedor,
         codigo |-> IF "codigo_fornecedor" \in cols THEN rows[i].codigo ELSE NULL,
         descricao |-> IF "descricao_fornecedor" \in cols THEN rows[i].descricao ELSE NULL,
         tipo |-> rows[i].tipo, valor |-> rows[i].valor,
         vencidos |-> rows[i].vencidos, avencer |-> rows[i].avencer,
         excluido |-> 0]]

----------------------------------------------------------------------------
(* process_data: the statements of the aggregation, one operator each.     *)
(* A result row is [codigo, descricao, fin, con, dif, status, detalhes,    *)
(* ordem]; ordem = 0 stands for a NULL ordem_importancia.  detalhes is     *)
(* NULL or the sequence of the text fragments written to it.               *)

NormKey(k) == Replace(Replace(Upper(Trim(k)), PrefixAF), PrefixF)

FinKey(f) == Coalesce(NullIf(Trim(f.codigo), Empty), Trim(f.fornecedor))
FinDesc(f) == Coalesce(NullIf(Trim(f.descricao), Empty), Trim(f.fornecedor))
IsInvoice(f) == f.excluido = 0 /\ f.tipo # NULL /\ Upper(f.tipo) \in {TipoNF, TipoFT}
IsAdvanceTitle(f) == f.excluido = 0 /\ f.tipo # NULL /\ Upper(f.tipo) \in {TipoNDF, TipoPA}

(* GROUP BY codigo, descricao with SUM(amount): one entry per distinct pair, *)
(* in the order of first appearance; keyed rows are [codigo, descricao, amount] *)
TotalOf(keyed, g) ==
    SumSeq([i \in 1..Len(keyed) |->
              IF <<keyed[i].codigo, keyed[i].descricao>> = g THEN keyed[i].amount ELSE 0])
GroupsOf(keyed) ==
    LET pairs == Distinct([i \in 1..Len(keyed) |-> <<keyed[i].codigo, keyed[i].descricao>>])
    IN [k \in 1..Len(pairs) |->
          [codigo |-> pairs[k][1], descricao |-> pairs[k][2],
           total |-> TotalOf(keyed, pairs[k])]]

(* a REAL column holding NULL is written NullReal, a number that no amount *)
(* and no sum of amounts reaches                                            *)
NullReal == -1000000000
CoalesceReal(a, b) == IF a # NullReal THEN a ELSE b

(* query_consolidada *)
SeedVendors(fin) ==
    LET rows == SelectSeq(fin, IsInvoice)
        groups == GroupsOf([i \in 1..Len(rows) |->
                     [codigo |-> FinKey(rows[i]), descricao |-> FinDesc(rows[i]),
                      amount |-> rows[i].valor]])
    IN [i \in 1..Len(groups) |->
          [codigo |-> groups[i].codigo, descricao |-> groups[i].descricao,
           fin |-> groups[i].total,
           con |-> 0, dif |-> 0, status |-> "Pendente", detalhes |-> NULL, ordem |-> 0]]

IsPayable(ci) == LikePrefix(ci.conta, PayablePrefix)
MatchesVendor(ci, r) ==
    /\ IsPayable(ci)
    /\ SqlEq(NormKey(ci.codigo), NormKey(r.codigo))
    /\ ci.codigo # NULL /\ ci.codigo # Empty

(* GROUP_CONCAT skips the rows whose text is NULL and is NULL without rows *)
ItemEvidence(rows) ==
    LET ok == SelectSeq(rows, LAMBDA ci : ci.conta # NULL /\ ci.item # NULL)
    IN IF ok = <<>> THEN NULL ELSE [i \in 1..Len(ok) |-> "Conta"]

(* query_atualiza_contabil *)
UpdateContabil(res, itens) ==
    [i \in 1..Len(res) |->
        LET r == res[i]
            m == SelectSeq(itens, LAMBDA ci : MatchesVendor(ci, r))
        IN IF m = <<>> THEN r
           ELSE [r EXCEPT !.con = SumSeq([j \in 1..Len(m) |-> m[j].saldo]),
                          !.detalhes = ItemEvidence(m)]]

(* query_adiantamento *)
AddAdvances(res, adv) ==
    [i \in 1..Len(res) |->
        LET r == res[i]
            m == SelectSeq(adv, LAMBDA a : LikePrefix(a.conta, AdvancePrefix)
                                           /\ SqlEq(a.codigo, r.codigo))
        IN IF m = <<>> THEN r
           ELSE [r EXCEPT !.con = @ + SumSeq([j \in 1..Len(m) |-> m[j].saldo])]]

ItemKey(ci) == Coalesce(NullIf(Trim(ci.codigo), Empty), ci.descricao)
ItemDesc(ci) == Coalesce(NullIf(Trim(ci.descricao), Empty), ci.item)

(* a variant without the residual insert *)
InsertNoResiduals(res, itens) == res
(* query_contabeis_faltantes *)
InsertResiduals(res, itens) ==
    LET rows == SelectSeq(itens, LAMBDA ci :
                    IsPayable(ci) /\ ~\E j \in 1..Len(res) : SqlEq(res[j].codigo, ItemKey(ci)))
        groups == GroupsOf([i \in 1..Len(rows) |->
                     [codigo |-> ItemKey(rows[i]), descricao |-> ItemDesc(rows[i]),
                      amount |-> rows[i].saldo]])
    IN res \o [i \in 1..Len(groups) |->
          [codigo |-> groups[i].codigo, descricao |-> groups[i].descricao, fin |-> 0,
           con |-> groups[i].total,
           dif |-> 0, status |-> "Pendente", detalhes |-> NULL, ordem |-> 0]]

(* the tolerance branches of the CASE of query_diferenca *)
VendorStatus(fin, con) ==
    LET f == FromCents(fin)
        a == FromCents(con)
    IN IF WithinTolerance(FAdd(f, FNeg(a)), f, a) THEN "Conferido" ELSE "Divergente"

(* the CASE of query_diferenca *)
VendorStatusCase(fin, con) ==
    IF con = NullReal /\ fin = NullReal THEN "Pendente"
    ELSE VendorStatus(CoalesceReal(fin, 0), CoalesceReal(con, 0))

(* query_diferenca *)
SetDifference(res) ==
    [i \in 1..Len(res) |->
        [res[i] EXCEPT !.dif = CoalesceReal(res[i].con, 0) - CoalesceReal(res[i].fin, 0),
                       !.status = VendorStatusCase(res[i].fin, res[i].con)]]

(* a variant of the filter below that looks for the seeding status *)
IsPendente(r) == r.status = "Pendente"
(* WHERE status = 'Divergente' *)
IsDivergente(r) == r.status = "Divergente"

(* a variant that replaces the text instead of appending to it *)
InvestigateOverwrite(res) ==
    [i \in 1..Len(res) |->
        IF IsDivergente(res[i]) THEN [res[i] EXCEPT !.detalhes = <<"Divergencia">>]
        ELSE res[i]]
(* query_investigacao, then the fallback for divergent rows without text *)
Investigate(res) ==
    [i \in 1..Len(res) |->
        IF IsDivergente(res[i])
        THEN [res[i] EXCEPT !.detalhes = Coalesce(@, Empty) \o <<"Divergencia">>]
        ELSE res[i]]
InvestigateFallback(res) ==
    [i \in 1..Len(res) |->
        IF IsDivergente(res[i]) /\ res[i].detalhes \in {NULL, Empty}
        THEN [res[i] EXCEPT !.detalhes = <<"Investigar">>]
        ELSE res[i]]

(* a variant that counts the strictly larger differences only *)
RankStrict(res, r) ==
    Cardinality({j \in 1..Len(res) : Abs(res[j].dif) > Abs(r.dif)})
(* ordem_importancia *)
RankOf(res, r) ==
    Cardinality({j \in 1..Len(res) : Abs(res[j].dif) >= Abs(r.dif)})
SetRank(res) == [i \in 1..Len(res) |-> [res[i] EXCEPT !.ordem = RankOf(res, res[i])]]

(* details of the rows that still have none *)
BackfillDetails(res) ==
    [i \in 1..Len(res) |->
        IF res[i].detalhes \in {NULL, Empty}
        THEN [res[i] EXCEPT !.detalhes =
                 CASE res[i].status = "Conferido" -> <<"Tolerancia">>
                   [] res[i].status = "Pendente" -> <<"Totais">>
                   [] OTHER -> @]
        ELSE res[i]]

----------------------------------------------------------------------------
(* _process_adiantamentos.  An advance result row is [codigo, descricao,   *)
(* fin, con, dif, status, detalhes].                                       *)

(* a variant that overwrites the vendor columns of every row *)
FillVendorColumnsAlways(fin) ==
    [i \in 1..Len(fin) |->
        [fin[i] EXCEPT !.codigo = fin[i].fornecedor, !.descricao = fin[i].fornecedor]]
(* UPDATE financeiro SET codigo_fornecedor = fornecedor WHERE ... IS NULL  *)
FillVendorColumns(fin) ==
    [i \in 1..Len(fin) |->
        [fin[i] EXCEPT !.codigo = IF @ = NULL THEN fin[i].fornecedor ELSE @,
                       !.descricao = IF @ = NULL THEN fin[i].fornecedor ELSE @]]

(* a variant of the table whose total columns have no DEFAULT *)
TableDefaultNull(column) == NullReal
(* total_financeiro REAL DEFAULT 0, total_contabil REAL DEFAULT 0: the     *)
(* value of a column that an INSERT does not name                          *)
TableDefault(column) == 0

(* query_adiantamento_financeiro *)
SeedAdvances(fin) ==
    LET rows == SelectSeq(fin, IsAdvanceTitle)
        groups == GroupsOf([i \in 1..Len(rows) |->
                     [codigo |-> FinKey(rows[i]), descricao |-> FinDesc(rows[i]),
                      amount |-> rows[i].vencidos + rows[i].avencer]])
    IN [i \in 1..Len(groups) |->
          [codigo |-> groups[i].codigo, descricao |-> groups[i].descricao,
           fin |-> groups[i].total,
           con |-> TableDefault("total_contabil"), dif |-> 0, status |-> "Pendente",
           detalhes |-> NULL]]

MatchesAdvance(a, r) ==
    SqlEq(a.codigo, r.codigo) \/ SqlEq(Trim(a.descricao), r.descricao)

AdvanceEvidence(rows) ==
    LET ok == SelectSeq(rows, LAMBDA a : a.descricao # NULL)
    IN <<"Adiantamento">> \o
       (IF ok = <<>> THEN <<"NenhumRegistro">> ELSE [i \in 1..Len(ok) |-> "Item"])

(* query_contabil_update *)
UpdateAdvanceContabil(res, adv) ==
    [i \in 1..Len(res) |->
        LET r == res[i]
            m == SelectSeq(adv, LAMBDA a : MatchesAdvance(a, r))
        IN IF m = <<>> THEN r
           ELSE [r EXCEPT !.con = SumSeq([j \in 1..Len(m) |-> m[j].saldo]),
                          !.detalhes = AdvanceEvidence(m)]]

(* query_contabeis_sem_match *)
InsertUnmatchedAdvances(res, adv) ==
    LET rows == SelectSeq(adv, LAMBDA a :
                    /\ a.codigo # NULL /\ a.codigo # Empty
                    /\ ~\E j \in 1..Len(res) :
                          \/ SqlEq(res[j].codigo, a.codigo)
                          \/ SqlEq(Trim(res[j].descricao), Trim(a.descricao)))
        groups == GroupsOf([i \in 1..Len(rows) |->
                     [codigo |-> rows[i].codigo, descricao |-> rows[i].descricao,
                      amount |-> rows[i].saldo]])
    IN res \o [i \in 1..Len(groups) |->
          [codigo |-> groups[i].codigo, descricao |-> groups[i].descricao,
           fin |-> TableDefault("total_financeiro"), con |-> groups[i].total,
           dif |-> 0, status |-> "Pendente", detalhes |-> <<"SemCorrespondencia">>]]

(* the tolerance branches of the CASE of the advance query_diferenca *)
AdvanceStatus(fin, con) ==
    LET f == FromCents(fin)
        a == FromCents(con)
    IN IF WithinTolerance(FAdd(f, a), f, a) THEN "Conferido" ELSE "Divergente"

(* the CASE of the advance query_diferenca *)
AdvanceStatusCase(fin, con) ==
    IF con = NullReal /\ fin = NullReal THEN "Pendente"
    ELSE IF con = NullReal \/ fin = NullReal THEN "Divergente"
    ELSE AdvanceStatus(fin, con)

SetAdvanceDifference(res) ==
    [i \in 1..Len(res) |->
        [res[i] EXCEPT !.dif = CoalesceReal(res[i].fin, 0) + CoalesceReal(res[i].con, 0),
                       !.status = AdvanceStatusCase(res[i].fin, res[i].con)]]

BackfillAdvanceDetails(res) ==
    [i \in 1..Len(res) |->
        IF res[i].detalhes \in {NULL, Empty}
        THEN [res[i] EXCEPT !.detalhes =
                 IF res[i].status = "Conferido" THEN <<"Conciliado">> ELSE <<"Diferenca">>]
        ELSE res[i]]

ProcessAdiantamentos(fin, adv) ==
    LET filled == FillVendorColumns(fin)
    IN [financeiro |-> filled,
        rows |-> BackfillAdvanceDetails(SetAdvanceDifference(
                    InsertUnmatchedAdvances(
                        UpdateAdvanceContabil(SeedAdvances(filled), adv), adv)))]

----------------------------------------------------------------------------
(* process_data as a whole.  fail names the statement at which the store   *)
(* reports an error ("none" when every statement runs).                    *)

Steps == <<"begin", "clear", "seed", "contabil", "advances", "residuals", "difference",
           "investigation", "fallback", "ranking", "backfill", "adiantamentos", "commit">>
StepIndex(name) == CHOOSE i \in 1..Len(Steps) : Steps[i] = name

(* query_consolidada names f.codigo_fornecedor and f.descricao_fornecedor *)
SeedFails(cols) == ~(FinanceiroColumns \subseteq cols)

(* the statement whose error leaves the try block, "none" on success: an   *)
(* error of the ranking statement is caught where it happens               *)
FailingStep(cols, fail) ==
    IF fail # "none" /\ fail # "ranking" /\ StepIndex(fail) < StepIndex("seed") THEN fail
    ELSE IF SeedFails(cols) THEN "seed"
    ELSE IF fail = "ranking" THEN "none"
    ELSE fail

(* table resultado after the statement named step ran on rows res *)
StepRows(step, res, fin, itens, adv, rank_error) ==
    CASE step = "seed" -> res \o SeedVendors(fin)
      [] step = "contabil" -> UpdateContabil(res, itens)
      [] step = "advances" -> AddAdvances(res, adv)
      [] step = "residuals" -> InsertResiduals(res, itens)
      [] step = "difference" -> SetDifference(res)
      [] step = "investigation" -> Investigate(res)
      [] step = "fallback" -> InvestigateFallback(res)
      [] step = "ranking" -> IF rank_error THEN res ELSE SetRank(res)
      [] step = "backfill" -> BackfillDetails(res)
      [] OTHER -> res

(* a variant that leaves the rows of the earlier call in place *)
KeepTable(old) == old
(* DELETE FROM resultado *)
ClearTable(old) == <<>>

RECURSIVE VendorStage(_, _, _, _, _, _)
(* table resultado after the first n statements of process_data ran; old  *)
(* holds the rows of the table before the call                             *)
VendorStage(old, fin, itens, adv, n, rank_error) ==
    IF n < StepIndex("clear") THEN old
    ELSE IF n = StepIndex("clear") THEN ClearTable(old)
    ELSE StepRows(Steps[n], VendorStage(old, fin, itens, adv, n - 1, rank_error),
                  fin, itens, adv, rank_error)

(* tables financeiro and resultado_adiantamento after the first n statements *)
AdvanceStage(old, fin, adv, n) ==
    IF n < StepIndex("clear") THEN [financeiro |-> fin, rows |-> old]
    ELSE IF n < StepIndex("adiantamentos") THEN [financeiro |-> fin, rows |-> <<>>]
    ELSE ProcessAdiantamentos(fin, adv)

VendorRows(fin, itens, adv, fail) ==
    VendorStage(<<>>, fin, itens, adv, Len(Steps), fail = "ranking")

(* a variant without rollback: what was written stays *)
RollbackKeepsWritten(before, written) == written
(* self.conn.rollback(): the table is again what it was at BEGIN *)
Rollback(before, written) == before

----------------------------------------------------------------------------
(* Sample sheets.  Amounts are in cents. *)

Fornecedor1001 == <<"1", "0", "0", "1", " ", "A", "C", "M", "E">>
Fornecedor1001Ltda == <<"1", "0", "0", "1", " ", "A", "C", "M", "E", " ", "L", "T", "D", "A">>
Fornecedor2002 == <<"2", "0", "0", "2", " ", "B", "E", "T", "A">>
Fornecedor3003 == <<"3", "0", "0", "3", " ", "G", "A", "M", "A">>
Codigo1001 == <<"1", "0", "0", "1">>
CodigoLower1001 == <<"f", "1", "0", "0", "1">>
Codigo2002 == <<"2", "0", "0", "2">>
Codigo3003 == <<"3", "0", "0", "3">>
Codigo4004 == <<"4", "0", "0", "4">>
Codigo6006 == <<"6", "0", "0", "6">>
NomeAcme == <<"A", "C", "M", "E">>
NomeBeta == <<"B", "E", "T", "A">>
NomeGama == <<"G", "A", "M", "A">>
NomeDelta == <<"D", "E", "L", "T", "A">>
NomeDeltaSA == <<"D", "E", "L", "T", "A", " ", "S", "A">>
NomeZeta == <<"Z", "E", "T", "A">>
ItemA == <<"A">>
ItemB == <<"B">>

FinRow(forn, tipo, valor, venc, avenc) ==
    [fornecedor |-> forn, tipo |-> tipo, valor |-> valor, vencidos |-> venc, avencer |-> avenc]
ItemRow(conta, item, cod, desc, saldo) ==
    [conta |-> conta, item |-> item, codigo |-> cod, descricao |-> desc, saldo |-> saldo]
ContaRow(conta, desc, saldo) == [conta |-> conta, descricao |-> desc, saldo |-> saldo]

Sheet(id, name, ext, defect, rows) ==
    [id |-> id, name |-> name, ext |-> ext, defect |-> defect, rows |-> rows]

FinSheets ==
    { Sheet("fin1", "finr150", "xlsx", "none",
            << FinRow(Fornecedor1001, TipoNF, 100000, 0, 100000),
               FinRow(Fornecedor2002, TipoNF, 97, 0, 97),
               FinRow(Fornecedor3003, TipoFT, 97000, 97000, 0),
               FinRow(Fornecedor2002, TipoPA, 0 - 100, 0, 0 - 100) >>),
      Sheet("fin2", "finr150", "xlsx", "none",
            << FinRow(Fornecedor1001, TipoNF, 60000, 0, 60000),
               FinRow(Fornecedor1001, TipoNF, 40000, 40000, 0),
               FinRow(Fornecedor1001Ltda, TipoNF, 20000, 0, 20000),
               FinRow(NULL, TipoNF, 500, 0, 500),
               FinRow(Fornecedor1001, TipoNDF, 0 - 50000, 0, 0 - 50000) >>),
      Sheet("fin3", "finr150", "pdf", "none", <<>>) }

ItensSheets ==
    { Sheet("itens1", "ctbr140", "xlsx", "none",
            << ItemRow(ContaPayable, ItemA, Codigo1001, NomeAcme, 100000),
               ItemRow(ContaPayable, ItemA, Codigo2002, NomeBeta, 100),
               ItemRow(ContaPayable, ItemA, Codigo3003, NomeGama, 100000),
               ItemRow(ContaPayable, ItemB, Codigo4004, NomeDelta, 5000),
               ItemRow(ContaPayable, ItemA, Codigo4004, NomeDelta, 2500),
               ItemRow(ContaOther, ItemB, Codigo6006, NomeZeta, 700) >>),
      Sheet("itens2", "ctbr140", "xlsx", "none",
            << ItemRow(ContaPayable, ItemA, Codigo1001, NomeAcme, 120000),
               ItemRow(ContaPayable, ItemB, Codigo4004, NomeDelta, 0),
               ItemRow(ContaPayable, ItemA, Codigo4004, NomeDeltaSA, 1500),
               ItemRow(ContaPayable, ItemB, CodigoLower1001, NomeAcme, 3000) >>),
      Sheet("itens3", "ctbr140", "xlsx", "schema", <<>>) }

AdvSheets ==
    { Sheet("adv1", "ctbr100", "xlsx", "none",
            << ItemRow(ContaAdvance, ItemA, Codigo1001, NomeAcme, 50000),
               ItemRow(ContaAdvance, ItemA, Codigo2002, NomeBeta, 97),
               ItemRow(ContaAdvance, ItemB, Codigo6006, NomeZeta, 300) >>),
      Sheet("adv2", "ctbr100", "xlsx", "crash", <<>>) }

ContaSheets ==
    { Sheet("conta1", "ctbr040", "xlsx", "none",
            << ContaRow(ContaPayable, NomeAcme, 100000),
               ContaRow(ContaOther, TextOutros, 700) >>),
      Sheet("conta2", "ctbr040", "xml", "format", <<>>) }

Sheets == FinSheets \cup ItensSheets \cup AdvSheets \cup ContaSheets

----------------------------------------------------------------------------
(* The store and the calls made on it *)

VARIABLES
    finCols,                 \* vendor columns present in table financeiro
    financeiro, modelo1, contas_itens, adiantamento,   \* source tables
    resultado, resultado_adiantamento,                 \* result tables
    loaded,                  \* sheet last imported with success, per file name
    last,                    \* the last call made on the store and its outcome
    run                      \* ProtheusScraper.run: position, counters, outcomes
                             \* (one such record per run when two runs share the store)

tables == <<financeiro, modelo1, contas_itens, adiantamento>>
results == <<resultado, resultado_adiantamento>>
store == <<finCols, financeiro, modelo1, contas_itens, adiantamento,
           resultado, resultado_adiantamento, loaded, last>>
vars == <<finCols, financeiro, modelo1, contas_itens, adiantamento,
          resultado, resultado_adiantamento, loaded, last, run>>

(* arquivos_importar: file name and destination table, in import order *)
ImportList == << <<"finr150", "financeiro">>, <<"ctbr040", "modelo1">>,
                 <<"ctbr140", "contas_itens">>, <<"ctbr100", "adiantamento">> >>
SheetNames == {ImportList[i][1] : i \in 1..Len(ImportList)}
TableNames == {ImportList[i][2] : i \in 1..Len(ImportList)}

(* a variant that sends both detail reports to contas_itens *)
DestinationShared(name, table_name) ==
    CASE name \in {"ctbr100", "ctbr140"} -> "contas_itens"
      [] name = "ctbr040" -> "modelo1"
      [] name = "finr150" -> "financeiro"
      [] OTHER -> table_name
(* import_from_excel, destination: the file name overrides the argument *)
Destination(name, table_name) ==
    CASE name = "ctbr100" -> "adiantamento"
      [] name = "ctbr140" -> "contas_itens"
      [] name = "ctbr040" -> "modelo1"
      [] name = "finr150" -> "financeiro"
      [] OTHER -> table_name

(* InvalidDataFormat (suffix not .xlsx, .xml or .txt; an XML file with      *)
(* fewer than two rows, defect "format") and PlanilhaFormatacaoErradaError  *)
(* (a required column still missing, defect "schema") make the call return  *)
(* False, any other exception leaves it as ExcecaoNaoMapeadaError           *)
ReturnsFalse(sheet) ==
    sheet.ext \notin {"xlsx", "xml", "txt"} \/ sheet.defect \in {"format", "schema"}
Raises(sheet) == ~ReturnsFalse(sheet) /\ sheet.defect = "crash"
(* a variant that goes on to the write whatever the reader found *)
ImportResultIgnoresDefect(sheet) == "true"
ImportResult(sheet) ==
    IF ReturnsFalse(sheet) THEN "false" ELSE IF Raises(sheet) THEN "raised" ELSE "true"

(* a variant with if_exists = 'append' *)
AppendTable(old, rows) == old \o rows
(* df.to_sql(table_name, if_exists = 'replace') *)
ReplaceTable(old, rows) == rows

(* export_to_excel: the sheets the writer is given for a view, the sheets  *)
(* validate_output asks for, and the workbook load_workbook finds once the *)
(* file was saved (all the sheets written, or one of them absent)          *)
ExportTypes == {"fornecedores", "adiantamentos"}
WrittenSheets(export_type) ==
    IF export_type = "fornecedores"
    THEN {"Fornecedores Nacionais", "Balancete", "Contas x Itens",
          "Resumo da Conciliacao", "Metadados"}
    ELSE {"Adiantamento de Fornecedores Nacionais", "Adiantamento",
          "Resumo Adiantamentos", "Metadados"}
RequiredSheets(export_type) ==
    IF export_type = "fornecedores"
    THEN {"Resumo da Conciliacao", "Fornecedores Nacionais", "Balancete",
          "Contas x Itens", "Metadados"}
    ELSE {"Resumo Adiantamentos", "Adiantamento de Fornecedores Nacionais",
          "Adiantamento", "Metadados"}
Workbooks(export_type) ==
    {WrittenSheets(export_type)} \cup
    {WrittenSheets(export_type) \ {sheet} : sheet \in WrittenSheets(export_type)}

(* a variant that accepts any workbook *)
ValidateAnything(book, export_type) == TRUE
(* validate_output: every required sheet is in wb.sheetnames *)
ValidateOutput(book, export_type) == RequiredSheets(export_type) \subseteq book

(* export_to_excel returns the path when nothing raised on the way (fault) *)
(* and the saved workbook passes validate_output                           *)
ExportReturns(fault, book, export_type) == ~fault /\ ValidateOutput(book, export_type)
(* the workbook on disk after the call: none when the writer never saved   *)
OnDisk(fault, book) == IF fault THEN {} ELSE book

(* The summary sheet of export_to_excel.  The rows come from the result     *)
(* table with the SQL filter on the vendor key, ordered by ABS(diferenca)   *)
(* DESC, codigo_fornecedor (BINARY collation: code points, in ASCII order)  *)
Alphabet ==
    <<" ", ",", "-", ".", "/", "0", "1", "2", "3", "4", "5", "6", "7", "8", "9",
      "A", "B", "C", "D", "E", "F", "G", "H", "I", "J", "K", "L", "M", "N", "O", "P",
      "Q", "R", "S", "T", "U", "V", "W", "X", "Y", "Z", "_",
      "a", "b", "c", "d", "e", "f", "g", "h", "i", "j", "k", "l", "m", "n", "o", "p",
      "q", "r", "s", "t", "u", "v", "w", "x", "y", "z">>
CodePoint(c) == CHOOSE i \in 1..Len(Alphabet) : Alphabet[i] = c
RECURSIVE TextLess(_, _)
TextLess(a, b) ==
    IF a = <<>> THEN b # <<>>
    ELSE IF b = <<>> THEN FALSE
    ELSE IF a[1] = b[1] THEN TextLess(Tail(a), Tail(b))
    ELSE CodePoint(a[1]) < CodePoint(b[1])

(* WHERE codigo_fornecedor IS NOT NULL AND != '' AND TRIM(...) != '' *)
HasVendorKey(r) == r.codigo # NULL /\ r.codigo # Empty /\ Trim(r.codigo) # Empty
ResumoBefore(a, b) ==
    \/ Abs(a.dif) > Abs(b.dif)
    \/ Abs(a.dif) = Abs(b.dif) /\ TextLess(a.codigo, b.codigo)
OrderResumo(rows) ==
    LET pos(i) == 1 + Cardinality({j \in 1..Len(rows) :
                       \/ ResumoBefore(rows[j], rows[i])
                       \/ ~ResumoBefore(rows[i], rows[j]) /\ j < i})
    IN [k \in 1..Len(rows) |-> rows[CHOOSE i \in 1..Len(rows) : pos(i) = k]]
QueryResumo(res) == OrderResumo(SelectSeq(res, HasVendorKey))

(* the pandas filter: notna, and str.strip() none of '', 'None', 'nan' *)
KeptCode(x) == x # NULL /\ Trim(x) \notin {Empty, TextNone, TextNan}
(* separar_codigo_descricao on the key: the sheet columns Codigo and       *)
(* Descricao Fornecedor are both taken from the key                         *)
SplitResumo(rows) ==
    [i \in 1..Len(rows) |->
        [rows[i] EXCEPT !.codigo = SepararCodigoDescricao(rows[i].codigo).codigo,
                        !.descricao = SepararCodigoDescricao(rows[i].codigo).descricao]]
(* the rows whose Codigo is empty after the separation are removed *)
FilterAfterSplit(rows) == SelectSeq(rows, LAMBDA r : KeptCode(r.codigo))
ResumoRows(res) ==
    FilterAfterSplit(SplitResumo(SelectSeq(QueryResumo(res), LAMBDA r : KeptCode(r.codigo))))

SummarySheet(export_type) ==
    IF export_type = "fornecedores" THEN "Resumo da Conciliacao" ELSE "Resumo Adiantamentos"
IdleRun ==
    [pc |-> "idle", idx |-> 1, importacoes |-> 0, outcomes |-> <<>>,
     seen |-> [n \in SheetNames |-> "unseen"], attempts |-> [n \in SheetNames |-> 0],
     called |-> {}, disk |-> [t \in ExportTypes |-> {}], returned |-> {},
     resumo |-> [t \in ExportTypes |-> <<>>]]

(* The database file is either created by _initialize_database, whose      *)
(* financeiro table has no vendor columns, or one that exists already with *)
(* those columns (CREATE TABLE IF NOT EXISTS then leaves it alone).  No     *)
(* reachable statement adds the columns: import keeps the column set and    *)
(* the ALTER TABLE of _process_adiantamentos runs after query_consolidada.  *)
Init ==
    /\ finCols \in {{}, FinanceiroColumns}
    /\ financeiro = <<>> /\ modelo1 = <<>> /\ contas_itens = <<>> /\ adiantamento = <<>>
    /\ resultado = <<>> /\ resultado_adiantamento = <<>>
    /\ loaded = [n \in SheetNames |-> "none"]
    /\ last = [op |-> "init", sheet |-> "none", again |-> FALSE, ok |-> TRUE,
               fail |-> "none", step |-> "none"]
    /\ run = IdleRun

ImportFromExcel(sheet, table_name) ==
    LET dest == Destination(sheet.name, table_name)
        ok == ImportResult(sheet) = "true"
    IN /\ last' = [op |-> "import", sheet |-> sheet.id,
                   again |-> last.op = "import" /\ last.sheet = sheet.id,
                   ok |-> ok, fail |-> "none",
                   step |-> IF Raises(sheet) THEN "raise" ELSE "none"]
       /\ loaded' = IF ok THEN [loaded EXCEPT ![sheet.name] = sheet.id] ELSE loaded
       /\ financeiro' = IF ok /\ dest = "financeiro"
                        THEN ReplaceTable(financeiro,
                                 KeepFinanceiro(CleanFinanceiroData(sheet.rows), finCols))
                        ELSE financeiro
       /\ modelo1' = IF ok /\ dest = "modelo1"
                     THEN ReplaceTable(modelo1, CleanModelo1Data(sheet.rows)) ELSE modelo1
       /\ contas_itens' = IF ok /\ dest = "contas_itens"
                          THEN ReplaceTable(contas_itens, CleanItensData(sheet.rows))
                          ELSE contas_itens
       /\ adiantamento' = IF ok /\ dest = "adiantamento"
                          THEN ReplaceTable(adiantamento, CleanItensData(sheet.rows))
                          ELSE adiantamento
       /\ UNCHANGED <<finCols, resultado, resultado_adiantamento>>

(* the three tables process_data writes *)
Written(res, adv) ==
    [financeiro |-> adv.financeiro, resultado |-> res, resultado_adiantamento |-> adv.rows]
(* what the tables hold when the call is over: commit or rollback *)
Settle(step, before, written) ==
    IF step = "none" THEN written ELSE Rollback(before, written)
StatementsRun(step) == IF step = "none" THEN Len(Steps) ELSE StepIndex(step) - 1

ProcessDataAt(step, fail, after) ==
    /\ last' = [op |-> "process_data", sheet |-> "none", again |-> FALSE,
                ok |-> step = "none", fail |-> fail, step |-> step]
    /\ financeiro' = after.financeiro
    /\ resultado' = after.resultado
    /\ resultado_adiantamento' = after.resultado_adiantamento
    /\ UNCHANGED <<finCols, modelo1, contas_itens, adiantamento, loaded>>

ProcessData(fail) ==
    ProcessDataAt(FailingStep(finCols, fail), fail,
        Settle(FailingStep(finCols, fail),
               Written(resultado, [financeiro |-> financeiro,
                                   rows |-> resultado_adiantamento]),
               Written(VendorStage(resultado, financeiro, contas_itens, adiantamento,
                                   StatementsRun(FailingStep(finCols, fail)),
                                   fail = "ranking"),
                       AdvanceStage(resultado_adiantamento, financeiro, adiantamento,
                                    StatementsRun(FailingStep(finCols, fail))))))

AllSteps == {Steps[i] : i \in 1..Len(Steps)}

(* calls made directly on DatabaseManager, in any order; process_data runs *)
(* through or meets an error at its last statement                         *)
Import ==
    /\ \E sheet \in Sheets, table_name \in TableNames : ImportFromExcel(sheet, table_name)
    /\ UNCHANGED run
Process ==
    /\ \E fail \in {"none", "commit"} : ProcessData(fail)
    /\ UNCHANGED run

Next == Import \/ Process
Spec == Init /\ [][Next]_vars

(* the reports a run may find in the download folder *)
Downloads == {"fin1", "conta1", "itens1", "itens2", "itens3", "adv1", "adv2"}

(* calls on a store fed with the downloaded reports, with an error injected *)
(* at any statement of process_data                                         *)
ImportDownload ==
    /\ \E sheet \in {s \in Sheets : s.id \in Downloads}, table_name \in TableNames :
         ImportFromExcel(sheet, table_name)
    /\ UNCHANGED run
ProcessFailing ==
    /\ \E fail \in {"none"} \cup AllSteps : ProcessData(fail)
    /\ UNCHANGED run
NextTxn == ImportDownload \/ ProcessFailing
SpecTxn == Init /\ [][NextTxn]_vars

----------------------------------------------------------------------------
(* ProtheusScraper.run, database phase: the import loop, the aggregation   *)
(* and the two exports.  The download folder is looked at file by file.    *)

Outcome(status, etapa, nome, code) ==
    [status |-> status, etapa |-> etapa, nome |-> nome, code |-> code]

(* the files of the download folder are all named <name>.xlsx *)
RunSheets(name) == {s \in Sheets : s.name = name /\ s.ext = "xlsx" /\ s.id \in Downloads}

(* a variant where a failed import leaves the loop *)
AfterImportAbort(result, idx) ==
    IF result \in {"false", "raised"} THEN "done"
    ELSE IF idx = Len(ImportList) THEN "process" ELSE "import"
(* position after file idx was handled: the handler inside the loop catches *)
(* every exception, so the loop always goes on to the next file             *)
AfterImport(result, idx) == IF idx = Len(ImportList) THEN "process" ELSE "import"

(* the outcome appended for one import_from_excel call *)
ImportOutcome(result, nome) ==
    IF result = "true" THEN Outcome("success", "importacao", nome, "None")
    ELSE Outcome("error", "importacao", nome, "FE3")

StartRun ==
    /\ run.pc = "idle"
    /\ run' = [IdleRun EXCEPT !.pc = "import"]
    /\ UNCHANGED store

(* a variant where the table of a missing file is emptied *)
MissingFileCleared(old) == <<>>
(* if not file_path.exists(): a warning and continue; the rows of the     *)
(* file's table stay                                                       *)
MissingFile(old) == old

SkipMissing ==
    /\ run.pc = "import"
    /\ LET name == ImportList[run.idx][1]
           table == ImportList[run.idx][2]
       IN /\ run' = [run EXCEPT !.seen[name] = "missing", !.idx = run.idx + 1,
                                !.pc = AfterImport("missing", run.idx)]
          /\ financeiro' = IF table = "financeiro" THEN MissingFile(financeiro)
                           ELSE financeiro
          /\ modelo1' = IF table = "modelo1" THEN MissingFile(modelo1) ELSE modelo1
          /\ contas_itens' = IF table = "contas_itens" THEN MissingFile(contas_itens)
                             ELSE contas_itens
          /\ adiantamento' = IF table = "adiantamento" THEN MissingFile(adiantamento)
                             ELSE adiantamento
    /\ UNCHANGED <<finCols, resultado, resultado_adiantamento, loaded, last>>

RunImport ==
    /\ run.pc = "import"
    /\ LET name == ImportList[run.idx][1]
           table == ImportList[run.idx][2]
       IN \E sheet \in RunSheets(name) :
            LET result == ImportResult(sheet)
            IN /\ ImportFromExcel(sheet, table)
               /\ run' = [run EXCEPT
                            !.seen[name] = result,
                            !.attempts[name] = run.attempts[name] + 1,
                            !.importacoes = IF result = "true" THEN run.importacoes + 1
                                            ELSE run.importacoes,
                            !.outcomes = Append(run.outcomes, ImportOutcome(result, name)),
                            !.idx = run.idx + 1,
                            !.pc = AfterImport(result, run.idx)]

(* a variant that aggregates whatever the imports did *)
ShouldProcessAlways(importacoes) == TRUE
(* if importacoes_realizadas > 0 *)
ShouldProcess(importacoes) == importacoes > 0

RunProcess ==
    /\ run.pc = "process"
    /\ ShouldProcess(run.importacoes)
    /\ \E fail \in {"none", "commit"} :
         /\ ProcessData(fail)
         /\ run' = IF FailingStep(finCols, fail) = "none"
                   THEN [run EXCEPT !.pc = "export_fornecedores",
                                    !.called = @ \cup {"process_data"}]
                   ELSE [run EXCEPT !.pc = "done",
                           !.called = @ \cup {"process_data"},
                           !.outcomes = Append(run.outcomes,
                               Outcome("critical_error", "database", "none", "FE3"))]

SkipProcess ==
    /\ run.pc = "process"
    /\ ~ShouldProcess(run.importacoes)
    /\ run' = [run EXCEPT !.pc = "done",
                 !.outcomes = Append(run.outcomes,
                     Outcome("error", "importacao", "none", "DB003"))]
    /\ UNCHANGED store

(* export_to_excel returns the path or raises ResultsSaveError, which only *)
(* the handler around the whole database phase catches                      *)
AfterExport(written, export_type, next_pc) ==
    IF written
    THEN [run EXCEPT !.pc = next_pc,
            !.called = @ \cup {export_type},
            !.outcomes = Append(run.outcomes,
                Outcome("success", "processamento", export_type, "None"))]
    ELSE [run EXCEPT !.pc = "done",
            !.called = @ \cup {export_type},
            !.outcomes = Append(run.outcomes,
                Outcome("critical_error", "database", "none", "1005"))]

(* the rows of the summary sheet in the saved workbook *)
ResumoOnDisk(fault, book, export_type) ==
    IF SummarySheet(export_type) \in OnDisk(fault, book)
    THEN ResumoRows(IF export_type = "fornecedores" THEN resultado
                    ELSE resultado_adiantamento)
    ELSE <<>>

ExportToExcel(export_type, next_pc) ==
    \E fault \in BOOLEAN, book \in Workbooks(export_type) :
      run' = [AfterExport(ExportReturns(fault, book, export_type), export_type, next_pc)
                EXCEPT !.disk[export_type] = OnDisk(fault, book),
                       !.returned = IF ExportReturns(fault, book, export_type)
                                    THEN @ \cup {export_type} ELSE @,
                       !.resumo[export_type] = ResumoOnDisk(fault, book, export_type)]

ExportFornecedores ==
    /\ run.pc = "export_fornecedores"
    /\ ExportToExcel("fornecedores", "export_adiantamentos")
    /\ UNCHANGED store

ExportAdiantamentos ==
    /\ run.pc = "export_adiantamentos"
    /\ ExportToExcel("adiantamentos", "done")
    /\ UNCHANGED store

ReturnResults ==
    /\ run.pc = "done"
    /\ run' = IdleRun
    /\ UNCHANGED store

RunNext ==
    \/ StartRun \/ SkipMissing \/ RunImport \/ RunProcess \/ SkipProcess
    \/ ExportFornecedores \/ ExportAdiantamentos \/ ReturnResults
RunSpec == Init /\ [][RunNext]_vars

----------------------------------------------------------------------------
(* Two runs of ProtheusScraper.run on the same store, each with its own    *)
(* download folder.  Nothing in run() or in DatabaseManager keeps a second *)
(* run from starting while the first is between its imports and its        *)
(* process_data: the runs interleave call by call.  A run records the      *)
(* source tables as its own calls left them (expect), whether the other    *)
(* run called the store meanwhile (overlapped) and the result tables it    *)
(* committed.                                                              *)

RunIds == {"A", "B"}
Folder(r) == IF r = "A" THEN {"fin1", "itens1"} ELSE {"fin2", "itens2"}
FolderSheets(r, name) == {s \in Sheets : s.name = name /\ s.id \in Folder(r)}

IdleConcurrent ==
    [pc |-> "idle", idx |-> 1, importacoes |-> 0, overlapped |-> FALSE, ok |-> FALSE,
     expect |-> <<>>, committed |-> <<>>]

InitTwo ==
    /\ finCols = FinanceiroColumns
    /\ financeiro = <<>> /\ modelo1 = <<>> /\ contas_itens = <<>> /\ adiantamento = <<>>
    /\ resultado = <<>> /\ resultado_adiantamento = <<>>
    /\ loaded = [n \in SheetNames |-> "none"]
    /\ last = [op |-> "init", sheet |-> "none", again |-> FALSE, ok |-> TRUE,
               fail |-> "none", step |-> "none"]
    /\ run = [r \in RunIds |-> IdleConcurrent]

(* a call of the other run on the store, seen from a run that is under way *)
Disturbed(rec) ==
    IF rec.pc \in {"import", "process"} THEN [rec EXCEPT !.overlapped = TRUE] ELSE rec

(* the source tables process_data reads *)
SourceTables == [financeiro |-> financeiro, contas_itens |-> contas_itens,
                 adiantamento |-> adiantamento]

(* the tables a run expects after its own import of sheet: the table the   *)
(* call wrote (now) replaces what the run expected there                    *)
AfterOwnImport(expect, sheet, now) ==
    LET dest == Destination(sheet.name, "none")
    IN IF ImportResult(sheet) # "true" \/ dest \notin DOMAIN expect THEN expect
       ELSE [expect EXCEPT ![dest] = now[dest]]

BeginRun(r) ==
    /\ run[r].pc = "idle"
    /\ run' = [run EXCEPT ![r] = [IdleConcurrent EXCEPT !.pc = "import",
                                                        !.expect = SourceTables]]
    /\ UNCHANGED store

ConcurrentSkip(r) ==
    /\ run[r].pc = "import"
    /\ FolderSheets(r, ImportList[run[r].idx][1]) = {}
    /\ run' = [run EXCEPT ![r].idx = @ + 1,
                          ![r].pc = AfterImport("missing", run[r].idx)]
    /\ UNCHANGED store

ConcurrentImport(r) ==
    /\ run[r].pc = "import"
    /\ \E sheet \in FolderSheets(r, ImportList[run[r].idx][1]) :
         /\ ImportFromExcel(sheet, ImportList[run[r].idx][2])
         /\ run' = [q \in RunIds |->
                      IF q # r THEN Disturbed(run[q])
                      ELSE [run[r] EXCEPT
                              !.idx = @ + 1,
                              !.importacoes = IF ImportResult(sheet) = "true" THEN @ + 1 ELSE @,
                              !.pc = AfterImport(ImportResult(sheet), run[r].idx),
                              !.expect = AfterOwnImport(@, sheet, SourceTables')]]

ConcurrentProcess(r) ==
    /\ run[r].pc = "process"
    /\ ShouldProcess(run[r].importacoes)
    /\ ProcessData("none")
    /\ run' = [q \in RunIds |->
                 IF q # r THEN Disturbed(run[q])
                 ELSE [run[r] EXCEPT !.pc = "done", !.ok = last'.ok,
                                     !.committed = <<resultado', resultado_adiantamento'>>]]

EndRun(r) ==
    /\ run[r].pc = "done"
    /\ run' = [run EXCEPT ![r] = IdleConcurrent]
    /\ UNCHANGED store

NextTwo ==
    \E r \in RunIds :
      \/ BeginRun(r) \/ ConcurrentSkip(r) \/ ConcurrentImport(r)
      \/ ConcurrentProcess(r) \/ EndRun(r)
TwoRunSpec == InitTwo /\ [][NextTwo]_vars

----------------------------------------------------------------------------
(* import_from_excel up to the cleaning step: column mapping, suggestions  *)
(* (aplicar_sugestoes_colunas) and the treatment of the columns that stay  *)
(* missing.  A header is the sequence of the column names of the file.     *)

(* canonical column names (the names of the table columns) *)
Col ==
    [titulo |-> <<"t", "i", "t", "u", "l", "o">>,
     parcela |-> <<"p", "a", "r", "c", "e", "l", "a">>,
     conta_contabil |-> <<"c", "o", "n", "t", "a", "_", "c", "o", "n", "t", "a", "b", "i", "l">>,
     movimento_periodo |-> <<"m", "o", "v", "i", "m", "e", "n", "t", "o", "_", "p", "e", "r", "i", "o", "d", "o">>,
     descricao_conta |-> <<"d", "e", "s", "c", "r", "i", "c", "a", "o", "_", "c", "o", "n", "t", "a">>,
     descricao_item |-> <<"d", "e", "s", "c", "r", "i", "c", "a", "o", "_", "i", "t", "e", "m">>,
     codigo_fornecedor |-> <<"c", "o", "d", "i", "g", "o", "_", "f", "o", "r", "n", "e", "c", "e", "d", "o", "r">>,
     descricao_fornecedor |-> <<"d", "e", "s", "c", "r", "i", "c", "a", "o", "_", "f", "o", "r", "n", "e", "c", "e", "d", "o", "r">>,
     saldo_anterior |-> <<"s", "a", "l", "d", "o", "_", "a", "n", "t", "e", "r", "i", "o", "r">>,
     debito |-> <<"d", "e", "b", "i", "t", "o">>,
     credito |-> <<"c", "r", "e", "d", "i", "t", "o">>,
     saldo_atual |-> <<"s", "a", "l", "d", "o", "_", "a", "t", "u", "a", "l">>]
(* column names as the Protheus reports write them *)
Src ==
    [Conta |-> <<"C", "o", "n", "t", "a">>,
     Codigo |-> <<"C", "o", "d", "i", "g", "o">>,
     Descricao |-> <<"D", "e", "s", "c", "r", "i", "c", "a", "o">>,
     Codigo1 |-> <<"C", "o", "d", "i", "g", "o", ".", "1">>,
     Descricao1 |-> <<"D", "e", "s", "c", "r", "i", "c", "a", "o", ".", "1">>,
     SaldoAnterior |-> <<"S", "a", "l", "d", "o", " ", "a", "n", "t", "e", "r", "i", "o", "r">>,
     Debito |-> <<"D", "e", "b", "i", "t", "o">>,
     Credito |-> <<"C", "r", "e", "d", "i", "t", "o">>,
     MovPeriodo |-> <<"M", "o", "v", " ", " ", "p", "e", "r", "i", "o", "d", "o">>,
     MovimentoPeriodo |-> <<"M", "o", "v", "i", "m", "e", "n", "t", "o", " ", "d", "o", " ", "p", "e", "r", "i", "o", "d", "o">>,
     SaldoAtual |-> <<"S", "a", "l", "d", "o", " ", "a", "t", "u", "a", "l">>]

LowerChar(c) ==
    CASE c = "A" -> "a" [] c = "B" -> "b" [] c = "C" -> "c" [] c = "D" -> "d"
      [] c = "E" -> "e" [] c = "F" -> "f" [] c = "G" -> "g" [] c = "H" -> "h"
      [] c = "I" -> "i" [] c = "J" -> "j" [] c = "K" -> "k" [] c = "L" -> "l"
      [] c = "M" -> "m" [] c = "N" -> "n" [] c = "O" -> "o" [] c = "P" -> "p"
      [] c = "Q" -> "q" [] c = "R" -> "r" [] c = "S" -> "s" [] c = "T" -> "t"
      [] c = "U" -> "u" [] c = "V" -> "v" [] c = "W" -> "w" [] c = "X" -> "x"
      [] c = "Y" -> "y" [] c = "Z" -> "z" [] OTHER -> c
Lower(s) == [i \in 1..Len(s) |-> LowerChar(s[i])]

(* get_expected_columns *)
ExpectedColumns(table) ==
    CASE table = "modelo1" ->
           <<Col.conta_contabil, Col.descricao_conta, Col.saldo_anterior,
             Col.debito, Col.credito, Col.saldo_atual>>
      [] table \in {"contas_itens", "adiantamento"} ->
           <<Col.conta_contabil, Col.descricao_item, Col.codigo_fornecedor,
             Col.descricao_fornecedor, Col.saldo_anterior, Col.debito,
             Col.credito, Col.saldo_atual>>

(* _get_column_mapping: settings.COLUNAS_MODELO1 and COLUNAS_CONTAS_ITENS   *)
(* have the canonical name as key and the report's name as value; a        *)
(* ctbr040 file gets its mapping only when it is an .xlsx file             *)
ColumnMapping(table, ext) ==
    CASE table = "modelo1" /\ ext = "xlsx" ->
           << <<Col.conta_contabil, Src.Conta>>, <<Col.descricao_conta, Src.Descricao>>,
              <<Col.saldo_anterior, Src.SaldoAnterior>>, <<Col.debito, Src.Debito>>,
              <<Col.credito, Src.Credito>>, <<Col.movimento_periodo, Src.MovPeriodo>>,
              <<Col.saldo_atual, Src.SaldoAtual>> >>
      [] table \in {"contas_itens", "adiantamento"} ->
           << <<Col.conta_contabil, Src.Codigo>>, <<Col.descricao_item, Src.Descricao>>,
              <<Col.codigo_fornecedor, Src.Codigo1>>,
              <<Col.descricao_fornecedor, Src.Descricao1>>,
              <<Col.saldo_anterior, Src.SaldoAnterior>>, <<Col.debito, Src.Debito>>,
              <<Col.credito, Src.Credito>>,
              <<Col.movimento_periodo, Src.MovimentoPeriodo>>,
              <<Col.saldo_atual, Src.SaldoAtual>> >>
      [] OTHER -> <<>>

(* the entries of manual_mapping whose key is a name of the ctbr reports,  *)
(* in dict order; the key 'Descricao' is written twice and keeps its last  *)
(* value                                                                    *)
ManualMapping ==
    << <<Src.Codigo1, Col.codigo_fornecedor>>, <<Src.Descricao1, Col.descricao_fornecedor>>,
       <<Src.Conta, Col.conta_contabil>>, <<Src.Descricao, Col.descricao_item>>,
       <<Src.Codigo, Col.conta_contabil>> >>

InSeq(x, s) == \E i \in 1..Len(s) : s[i] = x
Without(s, x) == SelectSeq(s, LAMBDA y : y # x)
(* df.rename(columns={from: to}) *)
RenameColumn(columns, from, to) ==
    [i \in 1..Len(columns) |-> IF columns[i] = from THEN to ELSE columns[i]]
(* df.rename(columns=column_mapping): every key at once *)
RenameAll(columns, mapping) ==
    [i \in 1..Len(columns) |->
        IF \E k \in 1..Len(mapping) : mapping[k][1] = columns[i]
        THEN mapping[CHOOSE k \in 1..Len(mapping) : mapping[k][1] = columns[i]][2]
        ELSE columns[i]]
MissingColumns(columns, expected) == SelectSeq(expected, LAMBDA c : ~InSeq(c, columns))

(* difflib.SequenceMatcher: the number of matched characters is the length *)
(* of the longest common block (the earliest in a, then the earliest in b) *)
(* plus the matches to its left and to its right                           *)
RECURSIVE RunAt(_, _, _, _)
RunAt(a, b, i, j) ==
    IF i <= Len(a) /\ j <= Len(b) /\ a[i] = b[j] THEN 1 + RunAt(a, b, i + 1, j + 1) ELSE 0
MaxIn(S) == CHOOSE m \in S : \A n \in S : n <= m
MinIn(S) == CHOOSE m \in S : \A n \in S : m <= n
RECURSIVE MatchedChars(_, _)
SplitAt(a, b, i, k) ==
    LET j == MinIn({q \in 1..Len(b) : RunAt(a, b, i, q) = k})
    IN k + MatchedChars(SubSeq(a, 1, i - 1), SubSeq(b, 1, j - 1))
         + MatchedChars(SubSeq(a, i + k, Len(a)), SubSeq(b, j + k, Len(b)))
LongestBlock(a, b, k) ==
    SplitAt(a, b, MinIn({i \in 1..Len(a) : \E j \in 1..Len(b) : RunAt(a, b, i, j) = k}), k)
MatchedChars(a, b) ==
    IF a = <<>> \/ b = <<>> THEN 0
    ELSE IF \A i \in 1..Len(a), j \in 1..Len(b) : a[i] # b[j] THEN 0
    ELSE LongestBlock(a, b, MaxIn({RunAt(a, b, i, j) : i \in 1..Len(a), j \in 1..Len(b)}))

(* ratio() = 2.0 * matches / (len(a) + len(b)) >= 0.6 *)
CloseEnough(x, word) == 10 * MatchedChars(x, word) >= 3 * (Len(x) + Len(word))
(* (ratio, x) of one possibility is below that of another *)
ScoreBelow(x, y, word) ==
    LET mx == MatchedChars(x, word) * (Len(y) + Len(word))
        my == MatchedChars(y, word) * (Len(x) + Len(word))
    IN mx < my \/ (mx = my /\ TextLess(x, y))
(* get_close_matches(word, possibilities, n=1, cutoff=0.6): the set holds  *)
(* the best possibility, or nothing                                        *)
CloseMatches(word, possibilities) ==
    LET close == {x \in possibilities : CloseEnough(x, word)}
    IN {x \in close : \A y \in close : y = x \/ ScoreBelow(y, x, word)}

(* aplicar_sugestoes_colunas.  st is [columns, missing, log]; candidates   *)
(* and lower_map are taken from the columns the function was called with.  *)
Suggested(st, match, db_col, how) ==
    [columns |-> RenameColumn(st.columns, match, db_col),
     missing |-> Without(st.missing, db_col),
     log |-> Append(st.log, [how |-> how, from |-> match, to |-> db_col,
                              renamed |-> InSeq(match, st.columns)])]
RECURSIVE ApplyManual(_, _)
ApplyManual(st, k) ==
    IF k > Len(ManualMapping) THEN st
    ELSE IF InSeq(ManualMapping[k][1], st.columns) /\ InSeq(ManualMapping[k][2], st.missing)
         THEN ApplyManual(Suggested(st, ManualMapping[k][1], ManualMapping[k][2], "manual"),
                          k + 1)
         ELSE ApplyManual(st, k + 1)
(* lower_map[key]: the last column whose lower-case form is key *)
LowerMap(candidates, key) ==
    candidates[MaxIn({i \in 1..Len(candidates) : Lower(candidates[i]) = key})]
LowerKeys(candidates) == {Lower(candidates[i]) : i \in 1..Len(candidates)}
SuggestOne(st, db_col, candidates) ==
    IF Lower(db_col) \in LowerKeys(candidates)
    THEN Suggested(st, LowerMap(candidates, Lower(db_col)), db_col, "case")
    ELSE LET similar == CloseMatches(db_col, {candidates[i] : i \in 1..Len(candidates)})
         IN IF similar # {}
            THEN Suggested(st, CHOOSE x \in similar : TRUE, db_col, "fuzzy")
            ELSE LET similar_lower == CloseMatches(Lower(db_col), LowerKeys(candidates))
                 IN IF similar_lower # {}
                    THEN Suggested(st, LowerMap(candidates, CHOOSE x \in similar_lower : TRUE),
                                   db_col, "fuzzy_lower")
                    ELSE st
RECURSIVE SuggestEach(_, _, _)
SuggestEach(st, todo, candidates) ==
    IF todo = <<>> THEN st
    ELSE SuggestEach(SuggestOne(st, Head(todo), candidates), Tail(todo), candidates)
SuggestAfterManual(st, candidates) == SuggestEach(st, st.missing, candidates)
AplicarSugestoesColunas(columns, missing_mappings) ==
    SuggestAfterManual(ApplyManual([columns |-> columns, missing |-> missing_mappings,
                                    log |-> <<>>], 1),
                       columns)

(* the columns import_from_excel creates itself: parcela from titulo and   *)
(* conta_contabil with a default text (saldo_devedor is never expected)    *)
DerivableColumn(c, columns) ==
    \/ c = Col.parcela /\ InSeq(Col.titulo, columns)
    \/ c = Col.conta_contabil
DeriveColumns(columns, remaining) ==
    [columns |-> columns \o SelectSeq(remaining, LAMBDA c : DerivableColumn(c, columns)),
     remaining |-> SelectSeq(remaining, LAMBDA c : ~DerivableColumn(c, columns))]

(* what import_from_excel has when it reaches "Limpa e prepara os dados",  *)
(* or the failure it raises before (PlanilhaFormatacaoErradaError)         *)
AfterSuggestions(sug, expected) ==
    LET d == DeriveColumns(sug.columns, MissingColumns(sug.columns, expected))
    IN [ok |-> d.remaining = <<>>, columns |-> d.columns, log |-> sug.log,
        derived |-> SelectSeq(MissingColumns(sug.columns, expected),
                              LAMBDA c : DerivableColumn(c, sug.columns))]
ResolveMapped(mapped, expected) ==
    IF MissingColumns(mapped, expected) = <<>>
    THEN [ok |-> TRUE, columns |-> mapped, log |-> <<>>, derived |-> <<>>]
    ELSE AfterSuggestions(AplicarSugestoesColunas(mapped, MissingColumns(mapped, expected)),
                          expected)
ResolveColumns(table, ext, header) ==
    ResolveMapped(RenameAll(header, ColumnMapping(table, ext)), ExpectedColumns(table))

----------------------------------------------------------------------------
(* The reading and cleaning functions of DatabaseManager called on their   *)
(* own.  A call is a record [fn, input, done, output] held in run; the     *)
(* store is not touched.                                                    *)

Call(fn, input) == [fn |-> fn, input |-> input, done |-> FALSE, output |-> NULL]
Return(value) == run' = [run EXCEPT !.done = TRUE, !.output = value]
Pending(fn) == run.fn = fn /\ ~run.done

(* read_spreadsheetml: a repeated header name gets the suffix _<count>.   *)
(* counts maps the names met so far to the number of their repetitions.    *)
DecimalDigits == <<"0", "1", "2", "3", "4", "5", "6", "7", "8", "9">>
RECURSIVE Decimal(_)
Decimal(n) == IF n < 10 THEN <<DecimalDigits[n + 1]>>
              ELSE Decimal(n \div 10) \o <<DecimalDigits[(n % 10) + 1]>>
Suffixed(col, n) == col \o <<"_">> \o Decimal(n)
RECURSIVE NewColumns(_, _)
NewColumns(columns, counts) ==
    IF columns = <<>> THEN <<>>
    ELSE LET col == Head(columns)
         IN IF col \notin DOMAIN counts
            THEN <<col>> \o NewColumns(Tail(columns), counts @@ (col :> 0))
            ELSE <<Suffixed(col, counts[col] + 1)>>
                 \o NewColumns(Tail(columns), [counts EXCEPT ![col] = @ + 1])
ReadSpreadsheetmlColumns(header) == NewColumns(header, <<>>)

MaxHeader == 3
HeaderNames == {<<"A">>, <<"B">>, <<"A", "_", "1">>, <<"A", "_", "2">>}
Headers == UNION {[1..n -> HeaderNames] : n \in 1..MaxHeader}

(* headers of ctbr040 and ctbr140 files: every expected column under its   *)
(* report name, or every one under its canonical name, and at most         *)
(* MaxOddColumns columns absent or written the other way                   *)
MaxOddColumns == 1
Forms == {"absent", "canonical", "report"}
ReportName(table, c) ==
    LET mapping == ColumnMapping(table, "xlsx")
    IN mapping[CHOOSE k \in 1..Len(mapping) : mapping[k][1] = c][2]
RECURSIVE HeaderOf(_, _, _)
HeaderOf(table, choice, k) ==
    IF k > Len(ExpectedColumns(table)) THEN <<>>
    ELSE (CASE choice[k] = "absent" -> <<>>
            [] choice[k] = "canonical" -> <<ExpectedColumns(table)[k]>>
            [] choice[k] = "report" -> <<ReportName(table, ExpectedColumns(table)[k])>>)
         \o HeaderOf(table, choice, k + 1)
Choices(table) ==
    {choice \in [1..Len(ExpectedColumns(table)) -> Forms] :
       \E base \in {"canonical", "report"} :
         Cardinality({k \in DOMAIN choice : choice[k] # base}) <= MaxOddColumns}
ImportFiles ==
    {[table |-> "modelo1", ext |-> ext, header |-> HeaderOf("modelo1", choice, 1)] :
        ext \in {"xlsx", "xml"}, choice \in Choices("modelo1")}
    \cup {[table |-> "contas_itens", ext |-> "xlsx",
           header |-> HeaderOf("contas_itens", choice, 1)] :
            choice \in Choices("contas_itens")}

ImportColumns ==
    /\ Pending("import_columns")
    /\ Return(ResolveColumns(run.input.table, run.input.ext, run.input.header))
    /\ UNCHANGED store

(* _clean_financeiro_data, date columns.  A cell is NULL or a text; a     *)
(* date is [d, m, y]; NaT stands for pandas' missing date.                 *)
NaT == [d |-> 0, m |-> 0, y |-> 0]
DigitValue(c) == CHOOSE n \in 0..9 : DecimalDigits[n + 1] = c
RECURSIVE Number(_)
Number(s) == IF s = <<>> THEN 0 ELSE 10 * Number(SubSeq(s, 1, Len(s) - 1)) + DigitValue(s[Len(s)])
DaysIn(m, y) ==
    IF m = 2 THEN (IF y % 4 = 0 /\ (y % 100 # 0 \/ y % 400 = 0) THEN 29 ELSE 28)
    ELSE IF m \in {4, 6, 9, 11} THEN 30 ELSE 31
(* astype(str).str.strip(), then '', 'nan', 'None' and 'NaT' become NaN *)
DateText(cell) ==
    LET t == IF cell = NULL THEN TextNan ELSE Trim(cell)
    IN IF t \in {Empty, TextNan, TextNone, <<"N", "a", "T">>} THEN NULL ELSE t
(* pd.to_datetime(dayfirst=True, errors='coerce') on texts written         *)
(* dd/mm/yyyy: the date, or NaT for a missing or unparsable text           *)
ToDatetime(t) ==
    IF t = NULL THEN NaT
    ELSE IF /\ Len(t) = 10 /\ t[3] = "/" /\ t[6] = "/"
            /\ \A i \in {1, 2, 4, 5, 7, 8, 9, 10} : IsDigit(t[i])
         THEN LET d == Number(SubSeq(t, 1, 2))
                  m == Number(SubSeq(t, 4, 5))
                  y == Number(SubSeq(t, 7, 10))
              IN IF m \in 1..12 /\ d \in 1..DaysIn(m, y) THEN [d |-> d, m |-> m, y |-> y]
                 ELSE NaT
         ELSE NaT
Padded(n, width) ==
    LET t == Decimal(n) IN [i \in 1..(width - Len(t)) |-> "0"] \o t
(* strftime('%d/%m/%Y') *)
Strftime(date) ==
    Padded(date.d, 2) \o <<"/">> \o Padded(date.m, 2) \o <<"/">> \o Padded(date.y, 4)
(* with a NaT in the column, dt.strftime('%Y-%m-%d') leaves a column of    *)
(* texts on which the next .dt raises; the handler sets the whole column   *)
(* to None.  Without a NaT every date is formatted.                         *)
FormatDates(dates) ==
    IF \E i \in 1..Len(dates) : dates[i] = NaT
    THEN [i \in 1..Len(dates) |-> NULL]
    ELSE [i \in 1..Len(dates) |-> Strftime(dates[i])]
CleanDateColumn(cells) == FormatDates([i \in 1..Len(cells) |-> ToDatetime(DateText(cells[i]))])

MaxDateRows == 3
DateCells ==
    {NULL, <<"a", "b", "c">>,
     <<" ", "0", "1", "/", "0", "9", "/", "2", "0", "2", "5">>,
     <<"3", "1", "/", "1", "2", "/", "2", "0", "2", "4">>,
     <<"3", "1", "/", "0", "2", "/", "2", "0", "2", "5">>}
DateColumns == UNION {[1..n -> DateCells] : n \in 1..MaxDateRows}

CleanDates ==
    /\ Pending("clean_dates")
    /\ Return(CleanDateColumn(run.input))
    /\ UNCHANGED store

ReadSpreadsheetml ==
    /\ Pending("read_spreadsheetml")
    /\ Return(ReadSpreadsheetmlColumns(run.input))
    /\ UNCHANGED store

(* formatar_credito.  The float returned is written as a decimal: units /  *)
(* 10^decimals, negated when neg; isnull stands for None.                   *)
NoAmount == [isnull |-> TRUE, neg |-> FALSE, units |-> 0, decimals |-> 0]
Amount(neg, units, decimals) ==
    [isnull |-> FALSE, neg |-> neg, units |-> units, decimals |-> decimals]
EndsWith(s, c) == s # <<>> /\ s[Len(s)] = c
IsDigitOrComma(c) == IsDigit(c) \/ c = ","
(* re.sub(r'[^\d,]', '', valor_str) *)
KeepDigitsAndCommas(s) == SelectSeq(s, IsDigitOrComma)
(* float(text) of a text of digits and points: raises unless the text has  *)
(* a digit and at most one point                                           *)
FloatRaises(text) ==
    \/ OnlyDigits(text) = <<>>
    \/ Len(text) - Len(OnlyDigits(text)) > 1
FloatOf(text) ==
    Amount(FALSE, Number(OnlyDigits(text)),
           IF Len(text) = Len(OnlyDigits(text)) THEN 0
           ELSE Len(text) - (CHOOSE i \in 1..Len(text) : text[i] = "."))
FormatarCredito(valor) ==
    IF valor = NULL THEN NoAmount
    ELSE LET valor_str == Trim(valor)
             is_credito == EndsWith(valor_str, "C")
             is_debito == EndsWith(valor_str, "D")
             kept == KeepDigitsAndCommas(valor_str)
             text == [i \in 1..Len(kept) |-> IF kept[i] = "," THEN "." ELSE kept[i]]
         IN IF FloatRaises(text) THEN Amount(FALSE, 0, 0)
            ELSE IF is_credito THEN [FloatOf(text) EXCEPT !.neg = TRUE]
            ELSE FloatOf(text)

(* amount texts: whole digits, grouped by three or not, a decimal          *)
(* separator, decimals and a suffix; the thousands separator is the other  *)
(* one of ',' and '.'                                                       *)
Wholes == {<<"0">>, <<"1", "2">>, <<"1", "2", "3", "4">>, <<"1", "2", "3", "4", "5">>}
Decimals == {<<"5">>, <<"5", "6">>}
AmountForms ==
    [whole : Wholes, grouped : BOOLEAN, sep : {",", "."}, dec : Decimals,
     suffix : {"C", "D"}]
RECURSIVE Grouped(_, _)
Grouped(digits, mark) ==
    IF Len(digits) <= 3 THEN digits
    ELSE Grouped(SubSeq(digits, 1, Len(digits) - 3), mark) \o <<mark>>
         \o SubSeq(digits, Len(digits) - 2, Len(digits))
AmountText(f) ==
    (IF f.grouped THEN Grouped(f.whole, IF f.sep = "," THEN "." ELSE ",") ELSE f.whole)
    \o <<f.sep>> \o f.dec \o <<f.suffix>>
OtherAmounts ==
    {NULL, Empty, <<"a", "b", "c">>, <<"C">>, <<"1", ",", "2", ",", "3", "C">>,
     <<"1", "2", ",", "5">>, <<" ", "1", "2", ",", "5", "0", "D", " ">>,
     <<"-", "1", "2", ",", "5", "0">>, <<"1", "2">>, <<"R", "$", " ", "7", ",", "0", "0", "C">>}
AmountTexts == {AmountText(f) : f \in AmountForms} \cup OtherAmounts

FormatarCreditoCall ==
    /\ Pending("formatar_credito")
    /\ Return(FormatarCredito(run.input))
    /\ UNCHANGED store
(* composite texts handed to separar_codigo_descricao *)
CompositeTexts ==
    {<<"1", "2", " ", "A", "B">>, <<"1", "2", "-", "A", "B">>,
     <<"1", "2", " ", "-", " ", "A", "B">>, <<"1", "2", "A", "B">>, <<"1", "2">>,
     <<"A", "B">>, <<"A", "1">>, <<"-", "A", "B">>, <<" ", "1", "2", " ", "A", " ">>,
     <<"1", "2", " ", "3", "M">>, <<"1", "2", "-", "3", "4", " ", "A", "B">>,
     <<"1", "2", ".">>, <<"1", "2", " ", "A", "-", "B">>, <<"1", " ", "2", " ", "3", " ", "A">>}

SepararCodigoDescricaoCall ==
    /\ Pending("separar_codigo_descricao")
    /\ Return(SepararCodigoDescricao(run.input))
    /\ UNCHANGED store
Calls ==
    {Call("read_spreadsheetml", h) : h \in Headers}
    \cup {Call("import_columns", f) : f \in ImportFiles}
    \cup {Call("clean_dates", column) : column \in DateColumns}
    \cup {Call("formatar_credito", valor) : valor \in AmountTexts}
    \cup {Call("separar_codigo_descricao", valor) : valor \in CompositeTexts}

InitClean ==
    /\ finCols = {}
    /\ financeiro = <<>> /\ modelo1 = <<>> /\ contas_itens = <<>> /\ adiantamento = <<>>
    /\ resultado = <<>> /\ resultado_adiantamento = <<>>
    /\ loaded = [n \in SheetNames |-> "none"]
    /\ last = [op |-> "init", sheet |-> "none", again |-> FALSE, ok |-> TRUE,
               fail |-> "none", step |-> "none"]
    /\ run \in Calls

NextClean ==
    \/ ReadSpreadsheetml \/ ImportColumns \/ CleanDates
    \/ FormatarCreditoCall \/ SepararCodigoDescricaoCall
CleanSpec == InitClean /\ [][NextClean]_vars

----------------------------------------------------------------------------
(* main(): the scraper is built and run, then one notification is sent.    *)
(* run holds the position in main, the list run() returned (the status of  *)
(* each outcome), where an exception left the try block, the notification  *)
(* sent and the return code.                                               *)

MainStart ==
    [pc |-> "start", results |-> <<>>, escaped |-> "none", notification |-> "none",
     code |-> -1]

(* the outcomes of login and of the three extractions: a failed start or   *)
(* login leaves one critical_error, an extraction ends in success or error *)
ExtractionOutcomes ==
    {<<"critical_error">>}
    \cup {<<"success">> \o steps : steps \in [1..3 -> {"success", "error"}]}
(* the outcomes of the database phase: no file imported (DB003), a failure *)
(* caught around the phase, process_data returning False (DB002), and      *)
(* imports followed by the two exports                                     *)
DatabaseOutcomes ==
    {<<"error">>, <<"critical_error">>, <<"success", "error">>,
     <<"error", "success", "critical_error">>, <<"success", "success", "success">>,
     <<"error", "success", "success", "success">>}

(* ProtheusScraper(settings=custom_settings): _initialize_resources raises *)
(* BrowserClosedError when the browser cannot be set up                    *)
MainConstruct ==
    /\ run.pc = "start"
    /\ \E built \in BOOLEAN :
         run' = IF built THEN [run EXCEPT !.pc = "run"]
                ELSE [run EXCEPT !.pc = "except", !.escaped = "construction"]
    /\ UNCHANGED store

(* results = scraper.run() or []: every handler of run() appends an        *)
(* outcome and the finally block returns the list                          *)
MainRun ==
    /\ run.pc = "run"
    /\ \E first \in ExtractionOutcomes, second \in DatabaseOutcomes :
         run' = [run EXCEPT !.pc = "notify", !.results = first \o second]
    /\ UNCHANGED store

(* send_success_email reads the template; only FileNotFoundError is caught *)
(* there, and the sending itself catches every exception                   *)
Templates == {"readable", "missing", "unreadable"}
SendSuccessRaises(template) == template = "unreadable"
MainSendSuccess ==
    /\ run.pc = "notify"
    /\ \E template \in Templates :
         run' = IF SendSuccessRaises(template)
                THEN [run EXCEPT !.pc = "except", !.escaped = "send_success_email"]
                ELSE [run EXCEPT !.pc = "exit", !.notification = "success"]
    /\ UNCHANGED store

(* except Exception: send_error_email, return 1 *)
MainSendError ==
    /\ run.pc = "except"
    /\ run' = [run EXCEPT !.pc = "returned", !.notification = "failure", !.code = 1]
    /\ UNCHANGED store

(* return 0 *)
MainReturn ==
    /\ run.pc = "exit"
    /\ run' = [run EXCEPT !.pc = "returned", !.code = 0]
    /\ UNCHANGED store

InitMain ==
    /\ finCols = {}
    /\ financeiro = <<>> /\ modelo1 = <<>> /\ contas_itens = <<>> /\ adiantamento = <<>>
    /\ resultado = <<>> /\ resultado_adiantamento = <<>>
    /\ loaded = [n \in SheetNames |-> "none"]
    /\ last = [op |-> "init", sheet |-> "none", again |-> FALSE, ok |-> TRUE,
               fail |-> "none", step |-> "none"]
    /\ run = MainStart

NextMain == MainConstruct \/ MainRun \/ MainSendSuccess \/ MainSendError \/ MainReturn
MainSpec == InitMain /\ [][NextMain]_vars

----------------------------------------------------------------------------
(* Properties *)

MaxOf(a, b) == IF a > b THEN a ELSE b
Committed == last.op = "process_data" /\ last.ok
(* the tolerance test on exact decimal amounts, in cents *)
ExactStatus(d, f, a) ==
    IF 100 * Abs(d) <= 3 * MaxOf(Abs(a), Abs(f)) THEN "Conferido" ELSE "Divergente"
SheetById(id) == CHOOSE s \in Sheets : s.id = id
(* what a successful import of the sheet last loaded under a name stores *)
Imported(name) ==
    IF loaded[name] = "none" THEN <<>>
    ELSE LET rows == SheetById(loaded[name]).rows
         IN CASE name = "finr150" -> KeepFinanceiro(CleanFinanceiroData(rows), finCols)
              [] name = "ctbr040" -> CleanModelo1Data(rows)
              [] OTHER -> CleanItensData(rows)

C2_FreshStoreScenario ==
    (/\ finCols = {}
     /\ last.op = "process_data" /\ last.fail = "none"
     /\ loaded = [n \in SheetNames |->
                    CASE n = "finr150" -> "fin1" [] n = "ctbr140" -> "itens1"
                      [] OTHER -> "none"])
    => /\ last.ok
       /\ Cardinality({i \in 1..Len(resultado) : resultado[i].codigo = Codigo1001}) = 1
       /\ \A i \in 1..Len(resultado) :
            resultado[i].codigo = Codigo1001 =>
              /\ resultado[i].fin = 100000 /\ resultado[i].con = 100000
              /\ resultado[i].dif = 0 /\ resultado[i].status = "Conferido"

(* C3: after a committed process_data every vendor group is Conferido      *)
(* exactly when |financial - accounting| <= 0.03 * max(|accounting|,       *)
(* |financial|), boundary included, and Divergente otherwise.              *)
C3_StatusByTolerance ==
    Committed =>
      \A i \in 1..Len(resultado) :
        resultado[i].status =
          ExactStatus(resultado[i].fin - resultado[i].con, resultado[i].fin, resultado[i].con)

(* C4: after a committed process_data every advance group has difference = *)
(* financial + accounting and is Conferido exactly when |financial +       *)
(* accounting| <= 0.03 * max(|accounting|, |financial|).                   *)
C4_AdvanceDifferenceAndStatus ==
    Committed =>
      \A i \in 1..Len(resultado_adiantamento) :
        LET r == resultado_adiantamento[i]
        IN /\ r.dif = r.fin + r.con
           /\ r.status = ExactStatus(r.fin + r.con, r.fin, r.con)

(* the payable lines of contas_itens, and the vendor keys among them that  *)
(* no NF/FT row of financeiro carries                                       *)
PayableLines == {j \in 1..Len(contas_itens) : LikePrefix(contas_itens[j].conta, PayablePrefix)}
ResidualKeys ==
    {ItemKey(contas_itens[j]) : j \in PayableLines} \
    {FinKey(financeiro[j]) : j \in {k \in 1..Len(financeiro) : IsInvoice(financeiro[k])}}
PayableTotal(key) ==
    LET lines == SelectSeq(contas_itens, LAMBDA ci :
                     LikePrefix(ci.conta, PayablePrefix) /\ ItemKey(ci) = key)
    IN SumSeq([j \in 1..Len(lines) |-> lines[j].saldo])

C6_DivergenteHasEvidence ==
    Committed =>
      \A i \in 1..Len(resultado) :
        resultado[i].status = "Divergente" => resultado[i].detalhes \notin {NULL, Empty}

(* a Divergente group committed while contas_itens held no line at all *)
C6_Witness ==
    /\ Committed /\ contas_itens = <<>>
    /\ \E i \in 1..Len(resultado) :
         resultado[i].status = "Divergente" /\ resultado[i].detalhes \notin {NULL, Empty}

C8_ReimportSameTable ==
    [][(last.op = "import" /\ last'.op = "import" /\ last'.sheet = last.sheet)
         => tables' = tables]_vars

(* the same good sheet imported twice in a row into a non-empty table *)
C8_Witness ==
    /\ last.op = "import" /\ last.again /\ last.ok
    /\ Imported(SheetById(last.sheet).name) # <<>>

(* C9: whatever the order of the imports, every source table holds what    *)
(* the sheet last loaded under its file name stores, and a process_data    *)
(* that commits yields the result tables of those four contents.           *)
C9_OrderIndependent ==
    /\ modelo1 = Imported("ctbr040")
    /\ contas_itens = Imported("ctbr140")
    /\ adiantamento = Imported("ctbr100")
    /\ financeiro \in {Imported("finr150"), FillVendorColumns(Imported("finr150"))}
    /\ (Committed /\ last.fail = "none") =>
         /\ resultado = VendorRows(Imported("finr150"), Imported("ctbr140"),
                                   Imported("ctbr100"), "none")
         /\ resultado_adiantamento =
              ProcessAdiantamentos(Imported("finr150"), Imported("ctbr100")).rows

(* all four files imported, then a committed process_data *)
C9_Witness ==
    /\ Committed /\ last.fail = "none"
    /\ \A n \in SheetNames : loaded[n] # "none"
    /\ resultado # <<>> /\ resultado_adiantamento # <<>>

ErrorsFor(name) ==
    Cardinality({i \in 1..Len(run.outcomes) :
                   /\ run.outcomes[i].status = "error"
                   /\ run.outcomes[i].etapa = "importacao"
                   /\ run.outcomes[i].nome = name})

(* C10: in a run, a file whose import returned False or raised has exactly *)
(* one error outcome, any other file has none; once the loop is over every *)
(* file of the list was looked at; a file found in the folder was passed   *)
(* to import_from_excel exactly once, a missing one never.                 *)
C10_ImportFailureIsolated ==
    \A name \in SheetNames :
      /\ ErrorsFor(name) = IF run.seen[name] \in {"false", "raised"} THEN 1 ELSE 0
      /\ run.attempts[name] = IF run.seen[name] \in {"true", "false", "raised"} THEN 1 ELSE 0
      /\ run.pc \notin {"idle", "import"} => run.seen[name] # "unseen"

(* ctbr140 returned False, ctbr100 raised, and the loop is over *)
C10_Witness ==
    /\ run.pc = "process"
    /\ run.seen["finr150"] = "true"
    /\ run.seen["ctbr140"] = "false"
    /\ run.seen["ctbr100"] = "raised"
    /\ ErrorsFor("ctbr140") = 1 /\ ErrorsFor("ctbr100") = 1

Succeeded == {n \in SheetNames : run.seen[n] = "true"}
HasOutcome(status, code) ==
    \E i \in 1..Len(run.outcomes) :
      run.outcomes[i].status = status /\ run.outcomes[i].code = code

(* C11: in a run, process_data is called if and only if at least one import *)
(* of that run succeeded; when the loop ended without a successful import   *)
(* neither process_data nor export_to_excel is called and an error outcome  *)
(* with code DB003 is recorded, and DB003 is recorded in no other case.     *)
C11_ProcessIffImported ==
    /\ run.importacoes = Cardinality(Succeeded)
    /\ "process_data" \in run.called => Succeeded # {}
    /\ (run.pc \in {"export_fornecedores", "export_adiantamentos", "done"} /\ Succeeded # {})
         => "process_data" \in run.called
    /\ (run.pc = "done" /\ Succeeded = {})
         => run.called = {} /\ HasOutcome("error", "DB003")
    /\ HasOutcome("error", "DB003") => Succeeded = {} /\ run.called = {}
    /\ run.called \cap {"fornecedores", "adiantamentos"} # {} => "process_data" \in run.called

(* a run whose two files both failed to import ended with DB003 and no call *)
C11_Witness ==
    /\ run.pc = "done" /\ Succeeded = {}
    /\ run.seen["ctbr140"] = "false" /\ run.seen["ctbr100"] = "raised"
    /\ HasOutcome("error", "DB003") /\ run.called = {}

(* a run with one successful import called process_data and both exports *)
C11_WitnessProcessed ==
    /\ run.pc = "done" /\ Cardinality(Succeeded) = 1
    /\ run.called = {"process_data", "fornecedores", "adiantamentos"}

(* C12: in a run, once export_to_excel('fornecedores') was called, with     *)
(* success or not, export_to_excel('adiantamentos') is called too before   *)
(* the run returns: a failed export of one view never suppresses the other. *)
C12_ExportFailureIsolated ==
    (run.pc = "done" /\ "fornecedores" \in run.called) => "adiantamentos" \in run.called

(* C13: an import that meets a format error (suffix not recognised, XML     *)
(* with fewer than two rows) or a schema error (required column missing)    *)
(* returns False and leaves the four source tables and the two result       *)
(* tables as they were before the call.                                     *)
C13_FailedImportNoEffect ==
    [][(last'.op = "import" /\ ReturnsFalse(SheetById(last'.sheet)))
         => /\ ~last'.ok /\ last'.step = "none"
            /\ tables' = tables /\ results' = results
            /\ loaded' = loaded]_vars

(* the schema error met on ctbr140 while its table and the result tables    *)
(* hold rows                                                                *)
C13_Witness ==
    /\ last.op = "import" /\ last.sheet = "itens3" /\ ~last.ok
    /\ contas_itens # <<>> /\ financeiro # <<>>
    /\ resultado # <<>> /\ resultado_adiantamento # <<>>

(* the same for an XML file without header row and for a .pdf file *)
C13_WitnessFormat ==
    /\ last.op = "import" /\ last.sheet \in {"conta2", "fin3"} /\ ~last.ok
    /\ modelo1 # <<>> /\ financeiro # <<>> /\ resultado # <<>>

(* the result tables that process_data yields on given source tables *)
ResultsOf(fin, itens, adv) ==
    <<VendorRows(fin, itens, adv, "none"), ProcessAdiantamentos(fin, adv).rows>>

(* C14: with two runs on one store and no lock between them, a run during  *)
(* which the other run made no call on the store (as when the runs are     *)
(* serialised) commits exactly the result of the source tables as its own  *)
(* imports and the calls completed before it began left them; only a run   *)
(* overlapped by the other can commit anything else.                       *)
C14_SerialisedRunsIsolated ==
    \A r \in RunIds :
      (run[r].pc = "done" /\ run[r].ok /\ ~run[r].overlapped)
        => run[r].committed = ResultsOf(run[r].expect.financeiro,
                                        run[r].expect.contas_itens,
                                        run[r].expect.adiantamento)

(* run A imported finr150 and ctbr140 of its own folder, run B replaced    *)
(* finr150 in between, and A committed the groups of B's titles against    *)
(* its own accounting lines                                                *)
C14_Witness ==
    /\ run["A"].pc = "done" /\ run["A"].ok /\ run["A"].overlapped
    /\ run["A"].expect.financeiro = KeepFinanceiro(CleanFinanceiroData(SheetById("fin1").rows), finCols)
    /\ run["A"].expect.contas_itens = CleanItensData(SheetById("itens1").rows)
    /\ run["A"].committed =
         ResultsOf(KeepFinanceiro(CleanFinanceiroData(SheetById("fin2").rows), finCols),
                   CleanItensData(SheetById("itens1").rows), <<>>)
    /\ run["A"].committed # ResultsOf(run["A"].expect.financeiro,
                                      run["A"].expect.contas_itens, <<>>)

(* C15: a workbook that export_to_excel('fornecedores') returned holds the *)
(* five sheets Resumo da Conciliacao, Fornecedores Nacionais, Balancete,   *)
(* Contas x Itens and Metadados; when one of them is absent from the saved *)
(* file the call does not return a path but raises ResultsSaveError (code  *)
(* 1005, which ends the database phase of the run).                        *)
C15_FornecedoresWorkbookComplete ==
    LET book == run.disk["fornecedores"]
        five == {"Resumo da Conciliacao", "Fornecedores Nacionais", "Balancete",
                 "Contas x Itens", "Metadados"}
    IN /\ "fornecedores" \in run.returned => five \subseteq book
       /\ (book # {} /\ ~(five \subseteq book))
            => /\ "fornecedores" \notin run.returned
               /\ run.pc = "done"
               /\ HasOutcome("critical_error", "1005")
               /\ ~\E i \in 1..Len(run.outcomes) : run.outcomes[i].nome = "fornecedores"

(* the vendor workbook was returned with its five sheets *)
C15_Witness ==
    /\ "fornecedores" \in run.returned
    /\ Cardinality(run.disk["fornecedores"]) = 5
    /\ \E i \in 1..Len(run.outcomes) :
         run.outcomes[i].nome = "fornecedores" /\ run.outcomes[i].status = "success"

(* the saved vendor workbook lacked the sheet Balancete and the call raised *)
C15_WitnessRejected ==
    /\ run.disk["fornecedores"] # {} /\ "Balancete" \notin run.disk["fornecedores"]
    /\ "fornecedores" \in run.called /\ "fornecedores" \notin run.returned
    /\ HasOutcome("critical_error", "1005")

(* C16: after a committed process_data no two rows of the vendor result    *)
(* table have the same codigo_fornecedor, also when titles of one vendor   *)
(* code carry different descriptions.                                      *)
C16_OneGroupPerVendorKey ==
    Committed =>
      \A i, j \in 1..Len(resultado) :
        resultado[i].codigo = resultado[j].codigo => i = j

(* the groups of the committed table that received the accounting line ci: *)
(* a seeded group through the update of query_atualiza_contabil, a group   *)
(* inserted by query_contabeis_faltantes through its GROUP BY              *)
GroupsFedBy(ci) ==
    LET seeded == Len(SeedVendors(financeiro))
    IN {i \in 1..Len(resultado) :
          IF i <= seeded THEN MatchesVendor(ci, resultado[i])
          ELSE /\ ~\E k \in 1..seeded : SqlEq(resultado[k].codigo, ItemKey(ci))
               /\ resultado[i].codigo = ItemKey(ci) /\ resultado[i].descricao = ItemDesc(ci)}

(* C17: after a committed process_data every payable line of contas_itens  *)
(* is part of the accounting total of at most one vendor group: a residual *)
(* group takes a line only when no seeded group received it.               *)
C17_LineFeedsOneGroup ==
    Committed =>
      \A j \in PayableLines : Cardinality(GroupsFedBy(contas_itens[j])) <= 1

(* trim, upper case, then removal of one leading AF or F *)
LeadingNorm(k) ==
    IF k = NULL THEN NULL
    ELSE LET u == Upper(Trim(k))
         IN IF IsPrefix(PrefixAF, u) THEN Drop(u, 2)
            ELSE IF IsPrefix(PrefixF, u) THEN Drop(u, 1) ELSE u
SameVendor(a, b) == SqlEq(LeadingNorm(a), LeadingNorm(b)) /\ LeadingNorm(a) # Empty

(* C18: for every group of a committed vendor table and every source row   *)
(* the accounting-detail join, the residual existence test and the advance *)
(* join decide alike, and they match two keys exactly when the keys are    *)
(* equal after trim, upper case and removal of a leading AF/F.             *)
C18_JoinsNormaliseAlike ==
    Committed =>
      \A i \in 1..Len(resultado) :
        /\ \A j \in PayableLines :
             LET ci == contas_itens[j]
                 same == SameVendor(ci.codigo, resultado[i].codigo)
             IN /\ MatchesVendor(ci, resultado[i]) = same
                /\ SqlEq(resultado[i].codigo, ItemKey(ci)) = same
        /\ \A j \in 1..Len(adiantamento) :
             LikePrefix(adiantamento[j].conta, AdvancePrefix) =>
               SqlEq(adiantamento[j].codigo, resultado[i].codigo)
                 = SameVendor(adiantamento[j].codigo, resultado[i].codigo)

(* C19: after a committed process_data no row of the two result tables has *)
(* a vendor key that is NULL or empty once trimmed.                        *)
C19_NoEmptyVendorKey ==
    Committed =>
      /\ \A i \in 1..Len(resultado) :
           resultado[i].codigo # NULL /\ Trim(resultado[i].codigo) # Empty
      /\ \A i \in 1..Len(resultado_adiantamento) :
           /\ resultado_adiantamento[i].codigo # NULL
           /\ Trim(resultado_adiantamento[i].codigo) # Empty

(* the vendor table as query_diferenca left it, before the statements that *)
(* annotate (query_investigacao, its fallback, the details backfill)       *)
BeforeAnnotation ==
    VendorStage(<<>>, financeiro, contas_itens, adiantamento, StepIndex("difference"), FALSE)
HasText(r) == r.detalhes \notin {NULL, Empty}

StatusKept(pre, post) ==
    /\ Len(post) = Len(pre)
    /\ \A i \in 1..Len(pre) : post[i].status = pre[i].status /\ post[i].codigo = pre[i].codigo
OnlyEmptyFilled(pre, post) ==
    \A i \in 1..Len(pre) : HasText(pre[i]) => post[i].detalhes = pre[i].detalhes
AppendedWhenDivergente(pre, post) ==
    \A i \in 1..Len(pre) :
      /\ HasText(post[i])
      /\ (HasText(pre[i]) /\ pre[i].status # "Divergente") => post[i].detalhes = pre[i].detalhes
      /\ (HasText(pre[i]) /\ pre[i].status = "Divergente")
           => post[i].detalhes = pre[i].detalhes \o <<"Divergencia">>

(* C20, as stated: the annotation statements leave every status as it was  *)
(* and write detalhes only on rows whose detalhes was NULL or empty; a     *)
(* group with evidence from the accounting-detail match keeps it unchanged. *)
C20_OnlyEmptyEvidenceFilled ==
    (Committed /\ last.fail = "none") =>
      StatusKept(BeforeAnnotation, resultado) /\ OnlyEmptyFilled(BeforeAnnotation, resultado)

(* C20, amended: the annotation statements leave every status as it was;   *)
(* a Divergente group that carries evidence from the accounting-detail     *)
(* match keeps that text and gets the divergence text appended to it, any  *)
(* other group with evidence keeps it unchanged, and only groups without   *)
(* evidence get a text of their own.                                       *)
C20_EvidenceKeptOrExtended ==
    (Committed /\ last.fail = "none") =>
      StatusKept(BeforeAnnotation, resultado) /\ AppendedWhenDivergente(BeforeAnnotation, resultado)

(* a Divergente group whose evidence of one accounting line was extended,  *)
(* next to a Conferido group whose evidence was kept                       *)
C20_Witness ==
    /\ Committed /\ last.fail = "none"
    /\ \E i \in 1..Len(resultado) :
         /\ resultado[i].status = "Divergente"
         /\ resultado[i].detalhes = <<"Conta", "Divergencia">>
    /\ \E i \in 1..Len(resultado) :
         resultado[i].status = "Conferido" /\ resultado[i].detalhes = <<"Conta">>

----------------------------------------------------------------------------
(* C21: process_data, _process_adiantamentos included, leaves the rows of  *)
(* financeiro, modelo1, contas_itens and adiantamento as they were before  *)
(* the call, whether it commits or rolls back.                             *)
C21_SourceTablesOnlyRead ==
    [][last'.op = "process_data" => tables' = tables]_vars

(* a committed call whose _process_adiantamentos found advance titles *)
C21_Witness ==
    /\ last.op = "process_data" /\ last.ok
    /\ financeiro # <<>> /\ resultado_adiantamento # <<>>
    /\ \E i \in 1..Len(financeiro) : IsAdvanceTitle(financeiro[i])

(* a call that rolled back after _process_adiantamentos had run *)
C21_WitnessRollback ==
    /\ last.op = "process_data" /\ ~last.ok /\ last.step = "commit"
    /\ financeiro # <<>>

----------------------------------------------------------------------------
(* C22: the summary sheet written by export_to_excel has exactly one row   *)
(* per group of the corresponding result table whose vendor key is not     *)
(* empty, groups keyed by a text without numeric code included, and its    *)
(* rows are in non-increasing order of |difference|.                       *)
NonEmptyKeyGroups(res) ==
    Cardinality({i \in 1..Len(res) : res[i].codigo # NULL /\ Trim(res[i].codigo) # Empty})
NonIncreasing(rows) ==
    \A i \in 1..(Len(rows) - 1) : Abs(rows[i].dif) >= Abs(rows[i + 1].dif)
C22_SummaryRowPerGroup ==
    /\ "Resumo da Conciliacao" \in run.disk["fornecedores"]
         => /\ Len(run.resumo["fornecedores"]) = NonEmptyKeyGroups(resultado)
            /\ NonIncreasing(run.resumo["fornecedores"])
    /\ "Resumo Adiantamentos" \in run.disk["adiantamentos"]
         => /\ Len(run.resumo["adiantamentos"]) = NonEmptyKeyGroups(resultado_adiantamento)
            /\ NonIncreasing(run.resumo["adiantamentos"])

----------------------------------------------------------------------------
(* C23: the column names read_spreadsheetml produces for a header row are  *)
(* pairwise distinct, also for a header that already holds a suffixed form *)
(* (A, A, A_1).                                                            *)
C23_ColumnNamesDistinct ==
    (run.fn = "read_spreadsheetml" /\ run.done)
      => \A i, j \in 1..Len(run.output) : run.output[i] = run.output[j] => i = j

----------------------------------------------------------------------------
(* C24: when import_from_excel reaches the cleaning step every column the  *)
(* destination requires is present, each from a source column of its own   *)
(* or from a derivation rule; no suggestion renames a column that already  *)
(* bears a required canonical name; the import fails when a required       *)
(* column is still missing.                                                *)
Required(call) == ExpectedColumns(call.input.table)
C24_RequiredColumnsResolved ==
    (run.fn = "import_columns" /\ run.done)
      => /\ run.output.ok
              <=> \A k \in 1..Len(Required(run)) :
                    Cardinality({i \in 1..Len(run.output.columns) :
                                   run.output.columns[i] = Required(run)[k]}) = 1
         /\ \A e \in 1..Len(run.output.log) :
              run.output.log[e].renamed => ~InSeq(run.output.log[e].from, Required(run))

----------------------------------------------------------------------------
(* C25: the date cleaning of the financial cleaner works cell by cell: a   *)
(* row whose date is parsable gets that date as dd/mm/yyyy and only the    *)
(* rows whose date is empty or unparsable get null, whatever the other     *)
(* rows of the column hold.                                                *)
C25_DatesCleanedPerCell ==
    (run.fn = "clean_dates" /\ run.done)
      => \A i \in 1..Len(run.input) :
           LET date == ToDatetime(DateText(run.input[i]))
           IN run.output[i] = IF date = NaT THEN NULL ELSE Strftime(date)


(* the amount written by an amount text, thousands separators ignored *)
WrittenAmount(f) == Amount(f.suffix = "C", Number(f.whole \o f.dec), Len(f.dec))
RECURSIVE Normal(_)
(* the same number without trailing decimal zeros *)
Normal(x) ==
    IF x.decimals > 0 /\ x.units % 10 = 0
    THEN Normal([x EXCEPT !.units = x.units \div 10, !.decimals = x.decimals - 1])
    ELSE x
Unparsable(valor) ==
    valor # NULL /\ FloatRaises(KeepDigitsAndCommas(valor))

(* C26: for an amount text made of digits with optional thousands          *)
(* separators, a decimal separator, decimals and a trailing C or D,        *)
(* formatar_credito returns the written amount, negative for C and         *)
(* positive for D; an unparsable non-null text gives 0.                    *)
C26_AmountSignAndMagnitude ==
    (run.fn = "formatar_credito" /\ run.done)
      => /\ \A f \in AmountForms :
              run.input = AmountText(f) => Normal(run.output) = Normal(WrittenAmount(f))
         /\ Unparsable(run.input) => run.output = Amount(FALSE, 0, 0)


(* text is code, then a run of separators, then description *)
SplitsInto(text, code, description) ==
    /\ Len(code) + Len(description) <= Len(text)
    /\ SubSeq(text, 1, Len(code)) = code
    /\ SubSeq(text, Len(text) - Len(description) + 1, Len(text)) = description
    /\ \A i \in (Len(code) + 1)..(Len(text) - Len(description)) : text[i] \in Separators

ResultRows == resultado \o [i \in 1..Len(resultado_adiantamento) |->
    [codigo |-> resultado_adiantamento[i].codigo,
     fin |-> resultado_adiantamento[i].fin, con |-> resultado_adiantamento[i].con,
     status |-> resultado_adiantamento[i].status]]

(* C28: after a committed process_data every group of resultado and of     *)
(* resultado_adiantamento has both totals non-null and is Conferido or     *)
(* Divergente, never Pendente.                                             *)
C28_NoPendenteAfterCommit ==
    Committed =>
      \A i \in 1..Len(ResultRows) :
        /\ ResultRows[i].fin # NullReal /\ ResultRows[i].con # NullReal
        /\ ResultRows[i].status \in {"Conferido", "Divergente"}

(* a run with an advance group that no accounting row matches (its total   *)
(* is the column default), a vendor group without accounting lines and a   *)
(* residual vendor group                                                    *)
C28_Witness ==
    /\ Committed
    /\ \E i \in 1..Len(resultado_adiantamento) :
         /\ ~\E j \in 1..Len(adiantamento) :
               MatchesAdvance(adiantamento[j], resultado_adiantamento[i])
         /\ resultado_adiantamento[i].con = 0
         /\ resultado_adiantamento[i].status = "Divergente"
    /\ \E i \in 1..Len(resultado) :
         /\ ~\E j \in 1..Len(contas_itens) : MatchesVendor(contas_itens[j], resultado[i])
         /\ resultado[i].con = 0
    /\ \E i \in 1..Len(resultado) : resultado[i].codigo \in ResidualKeys


TableRows(table) ==
    CASE table = "financeiro" -> financeiro [] table = "modelo1" -> modelo1
      [] table = "contas_itens" -> contas_itens [] table = "adiantamento" -> adiantamento
(* the files of the import list that the current run found missing or     *)
(* failed to import                                                         *)
NotImported ==
    {i \in 1..Len(ImportList) : run.seen[ImportList[i][1]] \in {"missing", "false", "raised"}}

(* C29: a source table whose file is missing or fails to import in the     *)
(* current run keeps the rows of the last successful import of an earlier  *)
(* run, and when another file imports successfully process_data commits    *)
(* the run's result groups computed from those rows.                       *)
C29_StaleTableUsed ==
    /\ \A i \in NotImported : TableRows(ImportList[i][2]) = Imported(ImportList[i][1])
    /\ (run.pc = "export_fornecedores" /\ NotImported # {})
         => /\ Committed
            /\ resultado = VendorRows(financeiro, contas_itens, adiantamento, "none")
            /\ resultado_adiantamento = ProcessAdiantamentos(financeiro, adiantamento).rows

(* a run that found no ctbr140 file and imported ctbr100: the accounting   *)
(* lines of an earlier run are still in contas_itens and the committed     *)
(* vendor table has a group made of them                                   *)
C29_Witness ==
    /\ run.pc = "export_fornecedores" /\ Committed
    /\ run.seen["ctbr140"] = "missing" /\ run.seen["ctbr100"] = "true"
    /\ loaded["ctbr140"] # "none" /\ contas_itens # <<>>
    /\ \E i \in 1..Len(resultado) :
         /\ resultado[i].con # 0
         /\ \E j \in 1..Len(contas_itens) : MatchesVendor(contas_itens[j], resultado[i])


AllFailed(statuses) ==
    /\ statuses # <<>>
    /\ \A i \in 1..Len(statuses) : statuses[i] \in {"error", "critical_error"}

====
